---- MODULE Spec2Model ----
(***************************************************************************)
(* Model of the execution core of NeoPulse: the risk sentinel              *)
(* (app/risk/sentinel.py), the risk manager (app/risk/manager.py), the     *)
(* execution engine (app/execution/engine.py), the strategy base class     *)
(* (app/strategy/base.py) and the circuit breaker                          *)
(* (app/core/circuit_breaker.py).                                          *)
(*                                                                         *)
(* Money amounts are integers (one unit = one rupee step of the model).    *)
(* Each component has its own specification; the variables of the other    *)
(* components stay at their initial values there.                          *)
(***************************************************************************)
EXTENDS Integers, Sequences, FiniteSets, TLC

\* ------------------------------------------------------------------------
\* Bounds of the model
\* ------------------------------------------------------------------------
NumReq == 2
MaxBrokerPositions == 2
MaxTradesToday == 2
PnlBound == 1
MaxQty == 3
NumCallers == 2
MaxFailures == 4
MaxPos == 3
MaxTicks == 4
MaxOrders == 3
MaxCallbacks == 2
NumAcquirers == 3
MaxWindow == 3
NumTokens == 2
NumStrats == 1
NumStarts == 2
MaxMinute == 3
MaxLtp == 2
MaxBarTicks == 3
MaxTasks == 3
NumSubs == 2
MaxPublished == 3
MaxBatch == 2
MaxCapital == 1
MaxPriceSteps == 1
MaxLot == 2
MaxStreak == 1
MaxCandleTime == 6
MaxGap == 3
NumRouted == 2
MaxTaken == 3
MaxPaperOrders == 2
MaxPaperQty == 2

\* ------------------------------------------------------------------------
\* Program constants
\* ------------------------------------------------------------------------
\* RiskConfig.max_open_trades default (app/risk/models.py:11); the model
\* uses 2 of the default 3 slots' worth to keep the state space small.
max_open_trades == 2
\* RiskConfig.max_capital_per_trade (required field, app/risk/models.py:10)
max_capital_per_trade == 2

Requests == 1..NumReq
PnlValues == {-1, 1}
TradeValues == {1, 3}

VARIABLES
    \* --- RiskConfig object shared by RiskManager and RiskSentinel
    cfgClass,            \* which RiskConfig class the config object is
    max_daily_loss,      \* config.max_daily_loss
    kill_switch_active,  \* config.kill_switch_active
    \* --- RiskSentinel
    current_pnl,
    open_trades,
    trades_today,
    peak_equity,
    lock,                \* holder of RiskSentinel._lock: "free" or "sync_state"
    snapshot,            \* broker positions response awaited by sync_state
    \* --- callers of check_pre_trade
    pc,                  \* per request: "idle", "waiting", "done"
    req_value,           \* per request: the value argument of its call
    result,              \* per request: "none", "true", "false", "raise"
    \* --- RiskManager
    is_initialized,
    \* --- BaseStrategy (one strategy instance)
    position,
    avg_price,
    last_trade_time,     \* "None", "recent" (under 1 s ago) or "old"
    \* --- what the last strategy call did
    sent,                \* the legs handed to broker.place_order, in order
    last,                \* the call, its arguments and what it returned
    \* --- CircuitBreaker (one instance)
    state,               \* "CLOSED", "OPEN" or "HALF_OPEN"
    failure_count,
    since_last_failure,  \* now - last_failure_time in seconds, capped at
                         \* recovery_timeout; None while last_failure_time is unset
    cpc,                 \* per caller of call(): "idle" or "running" (inside func)
    admitted,            \* per running caller: the breaker state it was let through in
    cres,                \* per caller: how its last call ended
    \* --- EventBus and the FeedEngine that feeds it
    tick_queue,          \* the ticks queued, oldest first
    ticks_dropped,
    order_queue,         \* the order updates queued, oldest first
    orders_queued,
    put_waiting,         \* the order updates whose put_order waits for space
    loop,                \* FeedEngine._loop: "unset" or "running"
    callbacks,           \* what call_soon_threadsafe has scheduled, in order
    next_tick,           \* number of ticks produced so far
    next_order,          \* number of order updates produced so far
    \* --- RateLimiter (kotak_limiter) and the place_order calls it wraps
    tokens,
    since_refill,        \* now - last_refill, in units of 1/rate seconds, capped
    lpc,                 \* per place_order caller: "idle", "sleeping" (in
                         \* acquire) or "calling" (in the broker's place_order)
    sleep_left,          \* per caller: what is left of its asyncio.sleep
    returned,            \* per age 0..MaxWindow: the acquire calls that
                         \* returned that long ago
    \* --- MarketFeed
    paper,               \* settings.PAPER_TRADING
    logged_in,           \* kotak_adapter.is_logged_in
    fpc,                 \* where connect() stands
    subscribed_tokens,
    reconnect_delay,
    silence,             \* now - last_packet_time in seconds, capped just
                         \* above silence_threshold
    last_sent,           \* the last client.subscribe call: its tokens and
                         \* whether it succeeded
    \* --- StrategyManager, its strategies and their bars
    wall,                \* the wall clock, in minutes
    beat_done,           \* a heartbeat pass has run in this minute
    is_running,          \* StrategyManager.is_running
    strategies,          \* the tokens with a registered strategy
    strategy_position,   \* per token: strategy.position
    start_state,         \* per start request: how far it has got
    tick_loop,           \* per start request: where _process_ticks stands
    order_loop,          \* per start request: where _process_orders stands
    hb_loop,             \* per start request: where _heartbeat_loop stands
    oms_sent,            \* the orders OrderExecutor.place_order has sent out
    current_candle,      \* per token: strategy.current_candle
    candles,             \* per token: the bars handed to on_candle_close
    on_tick_tasks,       \* the on_tick tasks created and not yet finished
    ticks_made,          \* how many ticks the tick loops have taken
    \* --- StrategyEngine and the strategy it runs
    running,             \* StrategyEngine._running
    tasks,               \* StrategyEngine.tasks
    task_pc,             \* per task: where _run_strategy_loop stands
    cancel_requested,    \* the tasks with a cancellation not yet delivered
    stop_waits,          \* the tasks a stop() call is gathering, or NoStop
    is_active,           \* strategy.is_active
    error_count,         \* strategy._error_count
    \* --- DataStream and its subscriptions
    stream_queue,        \* DataStream.tick_queue: the batches not yet routed
    subs,                \* per subscriber: its token, its queue, whether it
                         \* is in DataStream._subscribers
    published,           \* how many ticks publish() has been handed
    last_got,            \* per subscriber: number of the tick its last get() returned
    \* --- PositionSizer.calculate_qty ---
    sizer_args,     \* the arguments of the last calculate_qty call
    sizer_ret,      \* what that call returned, "raise" if it raised
    \* --- MomentumStrategy ---
    mom_position,   \* MomentumStrategy.position
    entry_price,    \* MomentumStrategy.entry_price
    last_exit_time, \* minute of the last exit, None before the first
    candle_time,    \* start_time of the last closed candle
    mom_last,       \* what the last on_candle_close call did
    \* --- StrategyManager: the tick router and the heartbeat ---
    router_pc,        \* _process_ticks: "off", "get" or "lock"
    held_tick,        \* token of the tick _process_ticks waits to route, 0 if none
    strategies_lock,  \* holder of StrategyManager._strategies_lock, "free" if none
    beat_pc,          \* _heartbeat_loop: "off", "top", "gather" or "sleep"
    update_suspended, \* strategies whose on_time_update is suspended
    tick_tasks,       \* per strategy: on_tick tasks created and suspended
    ticks_taken,      \* ticks taken from the queue so far
    \* --- VirtualBroker ---
    paper_orders,    \* VirtualBroker.orders, in the order they were placed
    paper_positions, \* VirtualBroker.positions: Position.qty per token
    paper_ledger,    \* VirtualBroker.ledger: the fills
    \* --- MarketScheduler ---
    sched_pc,       \* run_loop: "off", "check", "start" or "sleep"
    sched_call      \* the start() call run_loop awaits, 0 if none

riskVars == <<cfgClass, max_daily_loss, kill_switch_active, current_pnl,
              open_trades, trades_today, peak_equity, lock, snapshot>>
reqVars == <<pc, req_value, result>>
pipeVars == <<is_initialized, position, avg_price, last_trade_time, sent, last>>
cbVars == <<state, failure_count, since_last_failure, cpc, admitted, cres>>
busVars == <<tick_queue, ticks_dropped, order_queue, orders_queued, put_waiting,
            loop, callbacks, next_tick, next_order>>
limVars == <<tokens, since_refill, lpc, sleep_left, returned>>
feedVars == <<paper, logged_in, fpc, subscribed_tokens, reconnect_delay, silence,
             last_sent>>
mgrVars == <<wall, beat_done, is_running, strategies, strategy_position, start_state,
            tick_loop, order_loop, hb_loop, oms_sent, current_candle, candles,
            on_tick_tasks, ticks_made>>
engVars == <<running, tasks, task_pc, cancel_requested, stop_waits, is_active,
            error_count>>
streamVars == <<stream_queue, subs, published, last_got>>
sizerVars == <<sizer_args, sizer_ret>>
momVars == <<mom_position, entry_price, last_exit_time, candle_time, mom_last>>
routerVars == <<router_pc, held_tick, strategies_lock, beat_pc, update_suspended, tick_tasks, ticks_taken>>
paperVars == <<paper_orders, paper_positions, paper_ledger>>
schedVars == <<sched_pc, sched_call>>
vars == <<riskVars, reqVars, pipeVars, cbVars, busVars, limVars, feedVars, mgrVars, engVars, streamVars, sizerVars, momVars, routerVars, paperVars, schedVars>>
\* what the risk sentinel's own methods leave alone
nonRiskVars == <<pipeVars, cbVars, busVars, limVars, feedVars, mgrVars,
    engVars,
    streamVars,
    sizerVars,
    momVars,
    routerVars,
    paperVars,
    schedVars>>
\* what the risk manager, the execution engine and the strategy leave alone
nonPipeVars == <<reqVars, cbVars, busVars, limVars, feedVars, mgrVars,
    engVars,
    streamVars,
    sizerVars,
    momVars,
    routerVars,
    paperVars,
    schedVars>>
\* what the circuit breaker leaves alone
nonCbVars == <<riskVars, reqVars, pipeVars, busVars, limVars, feedVars, mgrVars,
    engVars,
    streamVars,
    sizerVars,
    momVars,
    routerVars,
    paperVars,
    schedVars>>
\* what the event bus and the feed engine leave alone
nonBusVars == <<riskVars, reqVars, pipeVars, cbVars, limVars, feedVars, mgrVars,
    engVars,
    streamVars,
    sizerVars,
    momVars,
    routerVars,
    paperVars,
    schedVars>>
\* what the rate limiter and the broker adapter leave alone
nonLimVars == <<riskVars, reqVars, pipeVars, cbVars, busVars, feedVars, mgrVars,
    engVars,
    streamVars,
    sizerVars,
    momVars,
    routerVars,
    paperVars,
    schedVars>>
\* what the market feed leaves alone
nonFeedVars == <<riskVars, reqVars, pipeVars, cbVars, busVars, limVars, mgrVars,
    engVars,
    streamVars,
    sizerVars,
    momVars,
    routerVars,
    paperVars,
    schedVars>>
\* what the strategy manager leaves alone (it reads paper)
nonMgrVars == <<riskVars, reqVars, pipeVars, cbVars, busVars, limVars, feedVars,
    engVars,
    streamVars,
    sizerVars,
    momVars,
    routerVars,
    paperVars,
    schedVars>>

\* what the strategy engine leaves alone
nonEngVars == <<riskVars, reqVars, pipeVars, cbVars, busVars, limVars, feedVars,
    mgrVars,
    streamVars,
    sizerVars,
    momVars,
    routerVars,
    paperVars,
    schedVars>>
\* what the data stream leaves alone
nonStreamVars == <<riskVars, reqVars, pipeVars, cbVars, busVars, limVars, feedVars, mgrVars, engVars,
    sizerVars,
    momVars,
    routerVars,
    paperVars,
    schedVars>>
\* everything but the position sizer
nonSizerVars == <<riskVars, reqVars, pipeVars, cbVars, busVars, limVars, feedVars, mgrVars, engVars, streamVars,
    momVars,
    routerVars,
    paperVars,
    schedVars>>
\* everything but the momentum strategy
nonMomVars == <<riskVars, reqVars, pipeVars, cbVars, busVars, limVars, feedVars, mgrVars, engVars, streamVars, sizerVars,
    routerVars,
    paperVars,
    schedVars>>
\* everything but the tick router and its heartbeat
nonRouterVars == <<riskVars, reqVars, pipeVars, cbVars, busVars, limVars, feedVars, mgrVars, engVars, streamVars, sizerVars, momVars,
    paperVars,
    schedVars>>
\* everything but the paper broker
nonPaperVars == <<riskVars, reqVars, pipeVars, cbVars, busVars, limVars, feedVars, mgrVars, engVars, streamVars, sizerVars, momVars, routerVars,
    schedVars>>
\* everything but the market scheduler
nonSchedVars == <<riskVars, reqVars, pipeVars, cbVars, busVars, limVars, feedVars, mgrVars, engVars, streamVars, sizerVars, momVars, routerVars, paperVars>>

\* the qty argument left out, last_failure_time unset
None == -1

\* no strategy call has run yet
NoCall == [op |-> "none", qty |-> 0, price |-> 0, ret |-> "None", filled_qty |-> 0]

Max(a, b) == IF a >= b THEN a ELSE b
Min(a, b) == IF a <= b THEN a ELSE b
Abs(x) == IF x < 0 THEN -x ELSE x
\* variant: the number of legs rounded down
CeilDivRoundsDown(a, b) == a \div b
\* math.ceil(a / b)
CeilDiv(a, b) == (a + b - 1) \div b

\* ------------------------------------------------------------------------
\* RiskSentinel.check_pre_trade: the decision taken inside the lock.
\* A config object of class app.schemas.common.RiskConfig (the one
\* RiskManager builds) has no max_open_trades field, so reading it raises
\* AttributeError; app.risk.models.RiskConfig has the field.
\* ------------------------------------------------------------------------
\* variant: the slot test lets one request through at the limit
CheckPreTradeResultOffByOne(cls, kill, mdl, pnl, ot, value) ==
    IF kill THEN "false"
    ELSE IF pnl <= -mdl THEN "false"
    ELSE IF cls = "schemas.common" THEN "raise"
    ELSE IF ot > max_open_trades THEN "false"
    ELSE IF value > max_capital_per_trade THEN "false"
    ELSE "true"

CheckPreTradeResult(cls, kill, mdl, pnl, ot, value) ==
    IF kill THEN "false"
    ELSE IF pnl <= -mdl THEN "false"
    ELSE IF cls = "schemas.common" THEN "raise"
    ELSE IF ot >= max_open_trades THEN "false"
    ELSE IF value > max_capital_per_trade THEN "false"
    ELSE "true"

\* Reserve Slot: the counters after check_pre_trade returned res
ReserveOpen(res, ot) == IF res = "true" THEN ot + 1 ELSE ot
ReserveToday(res, tt) == IF res = "true" THEN tt + 1 ELSE tt

\* the body of check_pre_trade for request r, run with the lock held
CheckBody(r, value) ==
    LET res == CheckPreTradeResult(cfgClass, kill_switch_active, max_daily_loss,
                                   current_pnl, open_trades, value)
    IN /\ open_trades' = ReserveOpen(res, open_trades)
       /\ trades_today' = ReserveToday(res, trades_today)
       /\ result' = [result EXCEPT ![r] = res]
       /\ req_value' = [req_value EXCEPT ![r] = value]
       /\ pc' = [pc EXCEPT ![r] = "done"]
       /\ UNCHANGED <<cfgClass, max_daily_loss, kill_switch_active, current_pnl,
                      peak_equity, lock, snapshot>>

\* a caller enters check_pre_trade; with the lock free the body runs without
\* a suspension point, otherwise the caller waits for the lock
CallCheckPreTrade(r, value) ==
    /\ pc[r] = "idle"
    /\ trades_today < MaxTradesToday
    /\ IF lock = "free"
       THEN CheckBody(r, value)
       ELSE /\ pc' = [pc EXCEPT ![r] = "waiting"]
            /\ req_value' = [req_value EXCEPT ![r] = value]
            /\ UNCHANGED <<riskVars, result>>
    /\ UNCHANGED nonRiskVars

\* a waiting caller gets the lock
ResumeCheckPreTrade(r) ==
    /\ pc[r] = "waiting"
    /\ lock = "free"
    /\ CheckBody(r, req_value[r])
    /\ UNCHANGED nonRiskVars

\* the caller takes the return value and may call again
ReturnCheckPreTrade(r) ==
    /\ pc[r] = "done"
    /\ pc' = [pc EXCEPT ![r] = "idle"]
    /\ result' = [result EXCEPT ![r] = "none"]
    /\ req_value' = [req_value EXCEPT ![r] = 0]
    /\ UNCHANGED riskVars
    /\ UNCHANGED nonRiskVars

\* ------------------------------------------------------------------------
\* RiskSentinel.sync_state: takes the lock, awaits the broker, then writes
\* open_trades.  Step 2 (the database sync) is a placeholder in the code.
\* ------------------------------------------------------------------------
\* the broker's answer to get_positions: outcome "ok" = logged in, open rows
\* with netQty # 0, the rows' realized PnL and the charges on their turnover;
\* outcome "skip" = broker not logged in, or get_positions raised
NoSnapshot == [outcome |-> "none", open |-> 0, realizedPNL |-> 0, estCharges |-> 0]
Snapshots ==
    {s \in [outcome : {"ok"}, open : 0..MaxBrokerPositions,
            realizedPNL : {-1, 0}, estCharges : {0, 1}] :
        s.estCharges = -s.realizedPNL}
    \cup {[outcome |-> "skip", open |-> 0, realizedPNL |-> 0, estCharges |-> 0]}

SyncStateBegin(snap) ==
    /\ lock = "free"
    /\ lock' = "sync_state"
    /\ snapshot' = snap
    /\ UNCHANGED <<cfgClass, max_daily_loss, kill_switch_active, current_pnl,
                   open_trades, trades_today, peak_equity, reqVars>>
    /\ UNCHANGED nonRiskVars

\* Step 1 writes open_trades from the rows; realized PnL and turnover of the
\* rows are not read, current_pnl and the kill switch are not written
SyncOpenTrades(snap, ot) == IF snap.outcome = "ok" THEN snap.open ELSE ot

SyncStateEnd ==
    /\ lock = "sync_state"
    /\ lock' = "free"
    /\ open_trades' = SyncOpenTrades(snapshot, open_trades)
    /\ snapshot' = NoSnapshot
    /\ UNCHANGED <<cfgClass, max_daily_loss, kill_switch_active, current_pnl,
                   trades_today, peak_equity, reqVars>>
    /\ UNCHANGED nonRiskVars

\* ------------------------------------------------------------------------
\* RiskSentinel.update_post_trade_close
\* ------------------------------------------------------------------------
\* variant: the switch follows the PnL instead of latching
KillAfterCloseUnlatched(kill, mdl, pnl) == pnl <= -mdl

KillAfterClose(kill, mdl, pnl) == IF pnl <= -mdl THEN TRUE ELSE kill

UpdatePostTradeClose(pnl) ==
    /\ lock = "free"
    /\ current_pnl + pnl \in -PnlBound..PnlBound
    /\ current_pnl' = current_pnl + pnl
    /\ open_trades' = Max(0, open_trades - 1)
    /\ peak_equity' = IF current_pnl' > peak_equity THEN current_pnl' ELSE peak_equity
    /\ kill_switch_active' = KillAfterClose(kill_switch_active, max_daily_loss, current_pnl')
    /\ UNCHANGED <<cfgClass, max_daily_loss, trades_today, lock, snapshot, reqVars>>
    /\ UNCHANGED nonRiskVars

\* RiskSentinel.rollback_slot
RollbackSlot ==
    /\ lock = "free"
    /\ open_trades' = Max(0, open_trades - 1)
    /\ trades_today' = Max(0, trades_today - 1)
    /\ UNCHANGED <<cfgClass, max_daily_loss, kill_switch_active, current_pnl,
                   peak_equity, lock, snapshot, reqVars>>
    /\ UNCHANGED nonRiskVars

\* RiskSentinel.reset_daily
ResetDaily ==
    /\ lock = "free"
    /\ current_pnl' = 0
    /\ trades_today' = 0
    /\ peak_equity' = 0
    /\ kill_switch_active' = FALSE
    /\ UNCHANGED <<cfgClass, max_daily_loss, open_trades, lock, snapshot, reqVars>>
    /\ UNCHANGED nonRiskVars

\* ------------------------------------------------------------------------
\* Specification of the risk sentinel
\* ------------------------------------------------------------------------
\* ------------------------------------------------------------------------
\* CircuitBreaker
\* ------------------------------------------------------------------------
\* constructor arguments, as in the breaker's unit test fixture
failure_threshold == 2
recovery_timeout == 2

Callers == 1..NumCallers

\* CircuitBreaker.__init__; no call in progress
CircuitStart ==
    /\ state = "CLOSED"
    /\ failure_count = 0
    /\ since_last_failure = None
    /\ cpc = [c \in Callers |-> "idle"]
    /\ admitted = [c \in Callers |-> "none"]
    /\ cres = [c \in Callers |-> "none"]

\* variant: a reset is attempted whatever the time since the last failure
ShouldAttemptResetAtOnce == TRUE

\* CircuitBreaker._should_attempt_reset
ShouldAttemptReset ==
    IF since_last_failure = None THEN TRUE
    ELSE since_last_failure >= recovery_timeout

\* the state check at the head of CircuitBreaker.call: what the caller does
\* next ("run" the function or "raise" the circuit-open exception) and the
\* breaker state it leaves behind
Admission(st) ==
    IF st = "OPEN"
    THEN IF ShouldAttemptReset
         THEN [next |-> "run", state |-> "HALF_OPEN"]
         ELSE [next |-> "raise", state |-> st]
    ELSE [next |-> "run", state |-> st]

\* CircuitBreaker.call up to the await of func
CallBegin(c) ==
    /\ cpc[c] = "idle"
    /\ LET a == Admission(state)
       IN /\ state' = a.state
          /\ IF a.next = "run"
             THEN /\ cpc' = [cpc EXCEPT ![c] = "running"]
                  /\ admitted' = [admitted EXCEPT ![c] = a.state]
                  /\ cres' = [cres EXCEPT ![c] = "none"]
             ELSE /\ cres' = [cres EXCEPT ![c] = "circuit_open"]
                  /\ UNCHANGED <<cpc, admitted>>
    /\ UNCHANGED <<failure_count, since_last_failure>>
    /\ UNCHANGED nonCbVars

\* CircuitBreaker.call once func has returned
CallSucceeds(c) ==
    /\ cpc[c] = "running"
    /\ cpc' = [cpc EXCEPT ![c] = "idle"]
    /\ admitted' = [admitted EXCEPT ![c] = "none"]
    /\ cres' = [cres EXCEPT ![c] = "ok"]
    /\ state' = IF state = "HALF_OPEN" THEN "CLOSED" ELSE state
    /\ failure_count' = IF state = "HALF_OPEN" THEN 0 ELSE failure_count
    /\ UNCHANGED since_last_failure
    /\ UNCHANGED nonCbVars

\* CircuitBreaker.call once func has raised
CallFails(c) ==
    /\ cpc[c] = "running"
    /\ failure_count < MaxFailures
    /\ cpc' = [cpc EXCEPT ![c] = "idle"]
    /\ admitted' = [admitted EXCEPT ![c] = "none"]
    /\ cres' = [cres EXCEPT ![c] = "fail"]
    /\ failure_count' = failure_count + 1
    /\ since_last_failure' = 0
    /\ state' = IF failure_count' >= failure_threshold THEN "OPEN" ELSE state
    /\ UNCHANGED nonCbVars

\* a second passes on the wall clock
ClockTick ==
    /\ since_last_failure # None
    /\ since_last_failure < recovery_timeout
    /\ since_last_failure' = since_last_failure + 1
    /\ UNCHANGED <<state, failure_count, cpc, admitted, cres>>
    /\ UNCHANGED nonCbVars

\* ------------------------------------------------------------------------
\* EventBus and FeedEngine.on_message_router
\* ------------------------------------------------------------------------
\* EventBus.TICK_QUEUE_SIZE (1000) and ORDER_QUEUE_SIZE (100), scaled down
TICK_QUEUE_SIZE == 2
ORDER_QUEUE_SIZE == 1

\* EventBus.__init__ and FeedEngine.__init__
BusStart ==
    /\ tick_queue = << >>
    /\ ticks_dropped = 0
    /\ order_queue = << >>
    /\ orders_queued = 0
    /\ put_waiting = {}
    /\ loop = "unset"
    /\ callbacks = << >>
    /\ next_tick = 0
    /\ next_order = 0

\* the queue after EventBus.put_tick(t) and the number of ticks it dropped
PutTickQueue(q, t) ==
    IF Len(q) < TICK_QUEUE_SIZE
    THEN [queue |-> Append(q, t), dropped |-> 0]
    ELSE [queue |-> Append(Tail(q), t), dropped |-> 1]

\* EventBus.put_tick: no suspension point between its statements
PutTick ==
    /\ next_tick < MaxTicks
    /\ next_tick' = next_tick + 1
    /\ LET r == PutTickQueue(tick_queue, next_tick + 1)
       IN /\ tick_queue' = r.queue
          /\ ticks_dropped' = ticks_dropped + r.dropped
    /\ UNCHANGED <<order_queue, orders_queued, put_waiting, loop, callbacks, next_order>>
    /\ UNCHANGED nonBusVars

\* asyncio.Queue.put_nowait as a loop callback: on a full queue QueueFull is
\* raised into the loop's exception handler and the item is gone
PutNowait(q, maxsize, item) == IF Len(q) < maxsize THEN Append(q, item) ELSE q

\* FeedEngine.on_message_router, called on the broker's socket thread with a
\* tick message: hands tick_queue.put_nowait to the loop
OnMessageRouterTick ==
    /\ next_tick < MaxTicks
    /\ Len(callbacks) < MaxCallbacks
    /\ next_tick' = next_tick + 1
    /\ callbacks' = IF loop = "running"
                    THEN Append(callbacks, [kind |-> "tick", item |-> next_tick + 1])
                    ELSE callbacks
    /\ UNCHANGED <<tick_queue, ticks_dropped, order_queue, orders_queued,
                   put_waiting, loop, next_order>>
    /\ UNCHANGED nonBusVars

\* FeedEngine.on_message_router with an order update: hands
\* order_queue.put_nowait to the loop
OnMessageRouterOrder ==
    /\ next_order < MaxOrders
    /\ Len(callbacks) < MaxCallbacks
    /\ next_order' = next_order + 1
    /\ callbacks' = IF loop = "running"
                    THEN Append(callbacks, [kind |-> "order", item |-> next_order + 1])
                    ELSE callbacks
    /\ UNCHANGED <<tick_queue, ticks_dropped, order_queue, orders_queued,
                   put_waiting, loop, next_tick>>
    /\ UNCHANGED nonBusVars

\* the loop runs the oldest scheduled callback
RunCallback ==
    /\ callbacks # << >>
    /\ callbacks' = Tail(callbacks)
    /\ LET cb == Head(callbacks)
       IN IF cb.kind = "tick"
          THEN /\ tick_queue' = PutNowait(tick_queue, TICK_QUEUE_SIZE, cb.item)
               /\ UNCHANGED order_queue
          ELSE /\ order_queue' = PutNowait(order_queue, ORDER_QUEUE_SIZE, cb.item)
               /\ UNCHANGED tick_queue
    /\ UNCHANGED <<ticks_dropped, orders_queued, put_waiting, loop, next_tick, next_order>>
    /\ UNCHANGED nonBusVars

\* EventBus.put_order: enqueues at once when there is space, else waits
PutOrder ==
    /\ next_order < MaxOrders
    /\ next_order' = next_order + 1
    /\ IF Len(order_queue) < ORDER_QUEUE_SIZE
       THEN /\ order_queue' = Append(order_queue, next_order + 1)
            /\ orders_queued' = orders_queued + 1
            /\ UNCHANGED put_waiting
       ELSE /\ put_waiting' = put_waiting \cup {next_order + 1}
            /\ UNCHANGED <<order_queue, orders_queued>>
    /\ UNCHANGED <<tick_queue, ticks_dropped, loop, callbacks, next_tick>>
    /\ UNCHANGED nonBusVars

\* a waiting put_order finds space within the 5 s
PutOrderResume(o) ==
    /\ o \in put_waiting
    /\ Len(order_queue) < ORDER_QUEUE_SIZE
    /\ order_queue' = Append(order_queue, o)
    /\ orders_queued' = orders_queued + 1
    /\ put_waiting' = put_waiting \ {o}
    /\ UNCHANGED <<tick_queue, ticks_dropped, loop, callbacks, next_tick, next_order>>
    /\ UNCHANGED nonBusVars

\* the 5 s of a waiting put_order run out: the put is cancelled and the
\* timeout is logged
PutOrderTimeout(o) ==
    /\ o \in put_waiting
    /\ put_waiting' = put_waiting \ {o}
    /\ UNCHANGED <<tick_queue, ticks_dropped, order_queue, orders_queued, loop,
                   callbacks, next_tick, next_order>>
    /\ UNCHANGED nonBusVars

\* the tick processor takes the oldest tick
GetTick ==
    /\ tick_queue # << >>
    /\ tick_queue' = Tail(tick_queue)
    /\ UNCHANGED <<ticks_dropped, order_queue, orders_queued, put_waiting, loop,
                   callbacks, next_tick, next_order>>
    /\ UNCHANGED nonBusVars

\* the order processor takes the oldest order update
GetOrder ==
    /\ order_queue # << >>
    /\ order_queue' = Tail(order_queue)
    /\ UNCHANGED <<tick_queue, ticks_dropped, orders_queued, put_waiting, loop,
                   callbacks, next_tick, next_order>>
    /\ UNCHANGED nonBusVars

\* FeedEngine.start stores the running loop
FeedStart ==
    /\ loop = "unset"
    /\ loop' = "running"
    /\ UNCHANGED <<tick_queue, ticks_dropped, order_queue, orders_queued,
                   put_waiting, callbacks, next_tick, next_order>>
    /\ UNCHANGED nonBusVars

\* ------------------------------------------------------------------------
\* RateLimiter and KotakNeoAdapter.place_order
\* ------------------------------------------------------------------------
\* Time is counted in units of 1/calls_per_second seconds, so that one token
\* is refilled per unit; burst_size (10) is scaled down.
rate == 1
capacity == 2

Acquirers == 1..NumAcquirers
\* beyond this the time since the last refill makes no difference
MaxElapsed == capacity + NumAcquirers

\* RateLimiter.__init__; no place_order call in progress
LimiterStart ==
    /\ tokens = capacity
    /\ since_refill = 0
    /\ lpc = [c \in Acquirers |-> "idle"]
    /\ sleep_left = [c \in Acquirers |-> 0]
    /\ returned = [a \in 0..MaxWindow |-> 0]

\* variant: the refill is not capped at capacity
RefillUncapped(tok, elapsed) ==
    LET new_tokens == elapsed * rate
    IN IF new_tokens > 0 THEN tok + new_tokens ELSE tok

\* step 1 of acquire: the tokens after the refill
Refill(tok, elapsed) ==
    LET new_tokens == elapsed * rate
    IN IF new_tokens > 0 THEN Min(capacity, tok + new_tokens) ELSE tok

\* steps 2 and 3 of acquire: the tokens after consuming one, and the wait
Consume(tok) ==
    [tokens |-> tok - 1,
     wait_time |-> IF tok - 1 < 0 THEN Abs(tok - 1) \div rate ELSE 0]

\* an acquire call returns now and the wrapped place_order starts
NoteReturn(ret) == [ret EXCEPT ![0] = @ + 1]

\* the kotak_limiter.limit wrapper of place_order up to the end of the
\* locked section of acquire (no suspension point inside the lock); with
\* nothing to wait for, acquire returns and the broker is called
PlaceOrderBegin(c) ==
    /\ lpc[c] = "idle"
    /\ LET r == Consume(Refill(tokens, since_refill))
       IN /\ tokens' = r.tokens
          /\ since_refill' = IF since_refill * rate > 0 THEN 0 ELSE since_refill
          /\ IF r.wait_time > 0
             THEN /\ lpc' = [lpc EXCEPT ![c] = "sleeping"]
                  /\ sleep_left' = [sleep_left EXCEPT ![c] = r.wait_time]
                  /\ UNCHANGED returned
             ELSE /\ lpc' = [lpc EXCEPT ![c] = "calling"]
                  /\ returned' = NoteReturn(returned)
                  /\ UNCHANGED sleep_left
    /\ UNCHANGED nonLimVars

\* the sleep of acquire is over: acquire returns and the broker is called
AcquireWakes(c) ==
    /\ lpc[c] = "sleeping"
    /\ sleep_left[c] = 0
    /\ lpc' = [lpc EXCEPT ![c] = "calling"]
    /\ returned' = NoteReturn(returned)
    /\ UNCHANGED <<tokens, since_refill, sleep_left>>
    /\ UNCHANGED nonLimVars

\* the broker's place_order answers or raises; either way place_order
\* returns a dict to its caller
PlaceOrderEnd(c) ==
    /\ lpc[c] = "calling"
    /\ lpc' = [lpc EXCEPT ![c] = "idle"]
    /\ UNCHANGED <<tokens, since_refill, sleep_left, returned>>
    /\ UNCHANGED nonLimVars

\* one unit of time passes; a sleep that is over wakes before time moves on
\* (the loop's timers fire on time)
LimiterTick ==
    /\ \A c \in Acquirers : lpc[c] = "sleeping" => sleep_left[c] > 0
    /\ since_refill' = Min(since_refill + 1, MaxElapsed)
    /\ sleep_left' = [c \in Acquirers |->
                        IF lpc[c] = "sleeping" THEN sleep_left[c] - 1 ELSE sleep_left[c]]
    /\ returned' = [a \in 0..MaxWindow |-> IF a = 0 THEN 0 ELSE returned[a - 1]]
    /\ UNCHANGED <<tokens, lpc>>
    /\ UNCHANGED nonLimVars

\* ------------------------------------------------------------------------
\* MarketFeed
\* ------------------------------------------------------------------------
\* MarketFeed.silence_threshold (10.0 s), scaled down
silence_threshold == 2
\* the first reconnect delay and the cap on it, in seconds
FirstReconnectDelay == 2
MaxReconnectDelay == 60

Tokens == 1..NumTokens
NothingSent == [tokens |-> {}, ok |-> FALSE]

\* MarketFeed.__init__ under settings.PAPER_TRADING = mode; connect() not
\* called yet.  _stop_event is set by nothing in the program, so both loops
\* of connect() run for ever.
FeedStartState(mode) ==
    /\ paper = mode
    /\ logged_in = FALSE
    /\ fpc = "init"
    /\ subscribed_tokens = {}
    /\ reconnect_delay = FirstReconnectDelay
    /\ silence = 0
    /\ last_sent = NothingSent

\* connect() is called and reaches the top of its outer loop
ConnectCalled ==
    /\ fpc = "init"
    /\ fpc' = "start"
    /\ UNCHANGED <<paper, logged_in, subscribed_tokens, reconnect_delay, silence, last_sent>>
    /\ UNCHANGED nonFeedVars

\* the top of the outer loop: the login check, then the resubscription of
\* every subscribed token; ok tells whether client.subscribe succeeded
\* (subscribe() logs a failure and returns)
ConnectTop(ok) ==
    /\ fpc = "start"
    /\ IF ~paper /\ ~logged_in
       THEN /\ fpc' = "login_sleep"
            /\ UNCHANGED <<silence, last_sent>>
       ELSE /\ fpc' = "watch"
            /\ IF subscribed_tokens # {}
               THEN /\ silence' = 0
                    /\ last_sent' = [tokens |-> subscribed_tokens, ok |-> ok]
               ELSE UNCHANGED <<silence, last_sent>>
    /\ UNCHANGED <<paper, logged_in, subscribed_tokens, reconnect_delay>>
    /\ UNCHANGED nonFeedVars

\* the 2 s wait for the broker login is over
LoginSleepEnds ==
    /\ fpc = "login_sleep"
    /\ fpc' = "start"
    /\ UNCHANGED <<paper, logged_in, subscribed_tokens, reconnect_delay, silence, last_sent>>
    /\ UNCHANGED nonFeedVars

\* variant: the watchdog looks at the silence whether or not a token is
\* subscribed
WatchdogVerdictIgnoresTokens(toks, quiet) ==
    IF quiet > silence_threshold THEN "backoff"
    ELSE IF toks = {} THEN "idle_sleep"
    ELSE "watch_sleep"

\* one pass of the watchdog loop: where connect() goes next.  The zombie
\* ConnectionError is caught by the except clause, which sleeps
\* reconnect_delay.
WatchdogVerdict(toks, quiet) ==
    IF toks = {} THEN "idle_sleep"
    ELSE IF quiet > silence_threshold THEN "backoff"
    ELSE "watch_sleep"

Watchdog ==
    /\ fpc = "watch"
    /\ fpc' = WatchdogVerdict(subscribed_tokens, silence)
    /\ UNCHANGED <<paper, logged_in, subscribed_tokens, reconnect_delay, silence, last_sent>>
    /\ UNCHANGED nonFeedVars

\* the 1 s sleep taken with no token subscribed is over
IdleSleepEnds ==
    /\ fpc = "idle_sleep"
    /\ fpc' = "watch"
    /\ silence' = 0
    /\ UNCHANGED <<paper, logged_in, subscribed_tokens, reconnect_delay, last_sent>>
    /\ UNCHANGED nonFeedVars

\* the 1 s sleep between two checks is over
WatchSleepEnds ==
    /\ fpc = "watch_sleep"
    /\ fpc' = "watch"
    /\ UNCHANGED <<paper, logged_in, subscribed_tokens, reconnect_delay, silence, last_sent>>
    /\ UNCHANGED nonFeedVars

\* the sleep of reconnect_delay seconds is over
BackoffEnds ==
    /\ fpc = "backoff"
    /\ fpc' = "start"
    /\ reconnect_delay' = Min(reconnect_delay * 2, MaxReconnectDelay)
    /\ UNCHANGED <<paper, logged_in, subscribed_tokens, silence, last_sent>>
    /\ UNCHANGED nonFeedVars

\* MarketFeed.subscribe called by another task with the tokens toks
Subscribe(toks, ok) ==
    /\ toks # {}
    /\ subscribed_tokens' = subscribed_tokens \cup toks
    /\ last_sent' = [tokens |-> toks, ok |-> ok]
    /\ UNCHANGED <<paper, logged_in, fpc, reconnect_delay, silence>>
    /\ UNCHANGED nonFeedVars

\* MarketFeed.on_message on the SDK's thread
OnMessage ==
    /\ silence' = 0
    /\ silence # 0
    /\ UNCHANGED <<paper, logged_in, fpc, subscribed_tokens, reconnect_delay, last_sent>>
    /\ UNCHANGED nonFeedVars

\* a second passes without a packet
FeedClockTick ==
    /\ silence <= silence_threshold
    /\ silence' = silence + 1
    /\ UNCHANGED <<paper, logged_in, fpc, subscribed_tokens, reconnect_delay, last_sent>>
    /\ UNCHANGED nonFeedVars

\* KotakNeoAdapter.login succeeds
KotakLogin ==
    /\ ~logged_in
    /\ logged_in' = TRUE
    /\ UNCHANGED <<paper, fpc, subscribed_tokens, reconnect_delay, silence, last_sent>>
    /\ UNCHANGED nonFeedVars

\* ------------------------------------------------------------------------
\* StrategyManager, BaseStrategy (services) and the one-minute bars
\* ------------------------------------------------------------------------
\* datetime.minute wraps every 60 minutes; scaled down
MinutesPerHour == 2
\* StrategyManager.exit_time (15:15), as a minute of the modelled day
exit_time == MaxMinute
Strats == 1..NumStrats
Starts == 1..NumStarts
LtpValues == 1..MaxLtp
\* the quantities a broker position row may carry
RestoredQty == {-1, 0, 1}
\* RiskMonitor has no can_trade method: the call in
\* OrderExecutor.place_order raises AttributeError
RiskMonitorCanTrade == "raise"

\* current_candle = None.  The field ticks is not in the source's dict: it
\* lists the ticks that went into the bar, for the properties.
NoCandle ==
    [open |-> 0, high |-> 0, low |-> 0, close |-> 0, volume |-> 0,
     start_time |-> None, ticks |-> << >>]

\* timestamp.minute
MinuteOf(ts) == ts % MinutesPerHour

\* BaseStrategy._start_new_candle
StartNewCandle(ltp, vol, ts) ==
    [open |-> ltp, high |-> ltp, low |-> ltp, close |-> ltp, volume |-> vol,
     start_time |-> ts, ticks |-> << [ltp |-> ltp, ts |-> ts] >>]

\* BaseStrategy.on_tick, step 3
UpdateCandle(c, ltp, vol, ts) ==
    [c EXCEPT !.high = Max(c.high, ltp),
              !.low = Min(c.low, ltp),
              !.close = ltp,
              !.volume = c.volume + vol,
              !.ticks = Append(c.ticks, [ltp |-> ltp, ts |-> ts])]

\* StrategyManager.__init__; no strategy registered, nothing started
ManagerStart ==
    /\ wall = 0
    /\ beat_done = FALSE
    /\ is_running = FALSE
    /\ strategies = {}
    /\ strategy_position = [s \in Strats |-> 0]
    /\ start_state = [r \in Starts |-> "idle"]
    /\ tick_loop = [r \in Starts |-> "off"]
    /\ order_loop = [r \in Starts |-> "off"]
    /\ hb_loop = [r \in Starts |-> "off"]
    /\ oms_sent = {}
    /\ current_candle = [s \in Strats |-> NoCandle]
    /\ candles = [s \in Strats |-> << >>]
    /\ on_tick_tasks = << >>
    /\ ticks_made = 0

\* POST /start; r is free for a new request once the earlier one is over.
\* configured tells whether StrategyManager.configure got as
\* far as registering fresh strategies for syms (it returns early, leaving
\* the old ones, when the symbol lookup fails).
StartBot(r, syms, configured) ==
    /\ start_state[r] \in {"idle", "rejected", "returned"}
    /\ IF is_running
       THEN /\ start_state' = [start_state EXCEPT ![r] = "rejected"]
            /\ UNCHANGED <<strategies, strategy_position, current_candle, candles,
                           on_tick_tasks>>
       ELSE /\ start_state' = [start_state EXCEPT ![r] = "scheduled"]
            /\ IF configured
               THEN /\ strategies' = syms
                    /\ strategy_position' = [s \in Strats |-> 0]
                    /\ current_candle' = [s \in Strats |-> NoCandle]
                    /\ candles' = [s \in Strats |-> << >>]
                    /\ on_tick_tasks' = << >>
               ELSE UNCHANGED <<strategies, strategy_position, current_candle,
                                candles, on_tick_tasks>>
    /\ UNCHANGED <<wall, beat_done, is_running, tick_loop, order_loop, hb_loop,
                   oms_sent, ticks_made>>
    /\ UNCHANGED nonMgrVars

\* the background task enters StrategyManager.start and awaits reconcile()
StartBegin(r) ==
    /\ start_state[r] = "scheduled"
    /\ start_state' = [start_state EXCEPT ![r] = "reconcile"]
    /\ UNCHANGED <<wall, beat_done, is_running, strategies, strategy_position,
                   tick_loop, order_loop, hb_loop, oms_sent, current_candle, candles,
                   on_tick_tasks, ticks_made>>
    /\ UNCHANGED nonMgrVars

\* reconcile() is over (in live mode the broker's rows, for the tokens in
\* has with the quantities qty, overwrite the positions); is_running is set
\* and the three loops are started
StartRun(r, has, qty) ==
    /\ start_state[r] = "reconcile"
    /\ start_state' = [start_state EXCEPT ![r] = "running"]
    /\ strategy_position' =
          IF paper THEN strategy_position
          ELSE [s \in Strats |->
                   IF s \in has /\ s \in strategies THEN qty[s]
                   ELSE strategy_position[s]]
    /\ is_running' = TRUE
    /\ tick_loop' = [tick_loop EXCEPT ![r] = "top"]
    /\ order_loop' = [order_loop EXCEPT ![r] = "top"]
    /\ hb_loop' = [hb_loop EXCEPT ![r] = "top"]
    /\ UNCHANGED <<wall, beat_done, strategies, oms_sent, current_candle, candles,
                   on_tick_tasks, ticks_made>>
    /\ UNCHANGED nonMgrVars

\* _process_ticks tests is_running
TickLoopTop(r) ==
    /\ tick_loop[r] = "top"
    /\ tick_loop' = [tick_loop EXCEPT ![r] = IF is_running THEN "get" ELSE "done"]
    /\ UNCHANGED <<wall, beat_done, is_running, strategies, strategy_position,
                   start_state, order_loop, hb_loop, oms_sent, current_candle, candles,
                   on_tick_tasks, ticks_made>>
    /\ UNCHANGED nonMgrVars

\* a tick for token tok arrives while _process_ticks waits in get(): an
\* on_tick task is created for the token's strategy, if there is one
TickLoopGet(r, tok, ltp) ==
    /\ tick_loop[r] = "get"
    /\ ticks_made < MaxBarTicks
    /\ ticks_made' = ticks_made + 1
    /\ on_tick_tasks' =
          IF tok \in strategies
          THEN Append(on_tick_tasks,
                      [id |-> ticks_made + 1, tok |-> tok, ltp |-> ltp,
                       pc |-> "new", ts |-> None])
          ELSE on_tick_tasks
    /\ tick_loop' = [tick_loop EXCEPT ![r] = "top"]
    /\ UNCHANGED <<wall, beat_done, is_running, strategies, strategy_position,
                   start_state, order_loop, hb_loop, oms_sent, current_candle, candles>>
    /\ UNCHANGED nonMgrVars

\* no tick for 2 s: asyncio.TimeoutError, continue
TickLoopTimeout(r) ==
    /\ tick_loop[r] = "get"
    /\ tick_loop' = [tick_loop EXCEPT ![r] = "top"]
    /\ UNCHANGED <<wall, beat_done, is_running, strategies, strategy_position,
                   start_state, order_loop, hb_loop, oms_sent, current_candle, candles,
                   on_tick_tasks, ticks_made>>
    /\ UNCHANGED nonMgrVars

\* _process_orders tests is_running
OrderLoopTop(r) ==
    /\ order_loop[r] = "top"
    /\ order_loop' = [order_loop EXCEPT ![r] = IF is_running THEN "get" ELSE "done"]
    /\ UNCHANGED <<wall, beat_done, is_running, strategies, strategy_position,
                   start_state, tick_loop, hb_loop, oms_sent, current_candle, candles,
                   on_tick_tasks, ticks_made>>
    /\ UNCHANGED nonMgrVars

\* an order update arrives while _process_orders waits in get();
\* BaseStrategy.on_order_update does nothing
OrderLoopGet(r) ==
    /\ order_loop[r] = "get"
    /\ order_loop' = [order_loop EXCEPT ![r] = "top"]
    /\ UNCHANGED <<wall, beat_done, is_running, strategies, strategy_position,
                   start_state, tick_loop, hb_loop, oms_sent, current_candle, candles,
                   on_tick_tasks, ticks_made>>
    /\ UNCHANGED nonMgrVars

\* the orders square_off_all gets to the broker: one opposite-side market
\* order per non-zero position, unless place_order raises before sending
SquareOffOrders ==
    IF RiskMonitorCanTrade = "raise" THEN {}
    ELSE {[token |-> s,
           side |-> IF strategy_position[s] > 0 THEN "SELL" ELSE "BUY",
           qty |-> Abs(strategy_position[s]),
           price |-> 0] : s \in {x \in strategies : strategy_position[x] # 0}}

\* StrategyManager.square_off_all; alert_ok tells whether the Telegram alert
\* it starts with went through (an exception skips the orders)
SquareOffAll(alert_ok) ==
    oms_sent' = IF alert_ok THEN oms_sent \cup SquareOffOrders ELSE oms_sent

\* BaseStrategy.on_time_update for the strategy of token s, at wall-clock
\* minute now: the bar that results and whether it was closed
OnTimeUpdateCloses(s, now) ==
    /\ current_candle[s] # NoCandle
    /\ MinuteOf(now) # MinuteOf(current_candle[s].start_time)

\* one pass of _heartbeat_loop
HeartbeatTop(r, alert_ok) ==
    /\ hb_loop[r] = "top"
    /\ IF ~is_running
       THEN /\ hb_loop' = [hb_loop EXCEPT ![r] = "done"]
            /\ UNCHANGED <<is_running, oms_sent, current_candle, candles, beat_done>>
       ELSE IF wall >= exit_time
       THEN /\ SquareOffAll(alert_ok)
            /\ is_running' = FALSE
            /\ hb_loop' = [hb_loop EXCEPT ![r] = "done"]
            /\ UNCHANGED <<current_candle, candles, beat_done>>
       ELSE /\ current_candle' =
                  [s \in Strats |->
                      IF s \in strategies /\ OnTimeUpdateCloses(s, wall)
                      THEN NoCandle ELSE current_candle[s]]
            /\ candles' =
                  [s \in Strats |->
                      IF s \in strategies /\ OnTimeUpdateCloses(s, wall)
                      THEN Append(candles[s], current_candle[s]) ELSE candles[s]]
            /\ hb_loop' = [hb_loop EXCEPT ![r] = "sleep"]
            /\ beat_done' = TRUE
            /\ UNCHANGED <<is_running, oms_sent>>
    /\ UNCHANGED <<wall, strategies, strategy_position, start_state, tick_loop,
                   order_loop, on_tick_tasks, ticks_made>>
    /\ UNCHANGED nonMgrVars

\* the heartbeat's asyncio.sleep(1) is over
HeartbeatWakes(r) ==
    /\ hb_loop[r] = "sleep"
    /\ hb_loop' = [hb_loop EXCEPT ![r] = "top"]
    /\ UNCHANGED <<wall, beat_done, is_running, strategies, strategy_position,
                   start_state, tick_loop, order_loop, oms_sent, current_candle, candles,
                   on_tick_tasks, ticks_made>>
    /\ UNCHANGED nonMgrVars

\* asyncio.gather of the three loops is over: start() returns
StartReturns(r) ==
    /\ start_state[r] = "running"
    /\ tick_loop[r] = "done" /\ order_loop[r] = "done" /\ hb_loop[r] = "done"
    /\ start_state' = [start_state EXCEPT ![r] = "returned"]
    /\ UNCHANGED <<wall, beat_done, is_running, strategies, strategy_position,
                   tick_loop, order_loop, hb_loop, oms_sent, current_candle, candles,
                   on_tick_tasks, ticks_made>>
    /\ UNCHANGED nonMgrVars

\* POST /stop
StopBot ==
    /\ is_running
    /\ is_running' = FALSE
    /\ UNCHANGED <<wall, beat_done, strategies, strategy_position, start_state,
                   tick_loop, order_loop, hb_loop, oms_sent, current_candle, candles,
                   on_tick_tasks, ticks_made>>
    /\ UNCHANGED nonMgrVars

\* the application shuts down while the engine runs: lifespan stops it and
\* squares off
Shutdown(alert_ok) ==
    /\ is_running
    /\ is_running' = FALSE
    /\ SquareOffAll(alert_ok)
    /\ UNCHANGED <<wall, beat_done, strategies, strategy_position, start_state,
                   tick_loop, order_loop, hb_loop, current_candle, candles,
                   on_tick_tasks, ticks_made>>
    /\ UNCHANGED nonMgrVars

\* seq without its i-th element
RemoveAt(seq, i) == SubSeq(seq, 1, i - 1) \o SubSeq(seq, i + 1, Len(seq))

\* the event loop runs tasks in the order they were created: the next
\* on_tick task to start
NextNewTask ==
    LET new == {i \in 1..Len(on_tick_tasks) : on_tick_tasks[i].pc = "new"}
    IN IF new = {} THEN 0 ELSE CHOOSE i \in new : \A j \in new : i <= j

\* BaseStrategy.on_tick runs up to its first suspension or to its end; the
\* tick carries no 'ts', so the time is datetime.now().  suspends tells
\* whether on_candle_close awaits something that makes it yield.
RunOnTick(suspends) ==
    /\ NextNewTask # 0
    /\ LET i == NextNewTask
           t == on_tick_tasks[i]
           c == current_candle[t.tok]
       IN IF c = NoCandle
          THEN /\ current_candle' =
                     [current_candle EXCEPT ![t.tok] = StartNewCandle(t.ltp, 1, wall)]
               /\ on_tick_tasks' = RemoveAt(on_tick_tasks, i)
               /\ UNCHANGED candles
          ELSE IF MinuteOf(wall) # MinuteOf(c.start_time)
          THEN /\ candles' = [candles EXCEPT ![t.tok] = Append(@, c)]
               /\ IF suspends
                  THEN /\ current_candle' = [current_candle EXCEPT ![t.tok] = NoCandle]
                       /\ on_tick_tasks' =
                             [on_tick_tasks EXCEPT ![i].pc = "closing", ![i].ts = wall]
                  ELSE /\ current_candle' =
                             [current_candle EXCEPT
                                 ![t.tok] = StartNewCandle(t.ltp, 1, wall)]
                       /\ on_tick_tasks' = RemoveAt(on_tick_tasks, i)
          ELSE /\ current_candle' =
                     [current_candle EXCEPT ![t.tok] = UpdateCandle(c, t.ltp, 1, wall)]
               /\ on_tick_tasks' = RemoveAt(on_tick_tasks, i)
               /\ UNCHANGED candles
    /\ UNCHANGED <<wall, beat_done, is_running, strategies, strategy_position,
                   start_state, tick_loop, order_loop, hb_loop, oms_sent, ticks_made>>
    /\ UNCHANGED nonMgrVars

\* on_candle_close is over: on_tick goes on with _start_new_candle
ResumeOnTick(i) ==
    /\ i \in 1..Len(on_tick_tasks)
    /\ on_tick_tasks[i].pc = "closing"
    /\ current_candle' =
          [current_candle EXCEPT
              ![on_tick_tasks[i].tok] =
                  StartNewCandle(on_tick_tasks[i].ltp, 1, on_tick_tasks[i].ts)]
    /\ on_tick_tasks' = RemoveAt(on_tick_tasks, i)
    /\ UNCHANGED <<wall, beat_done, is_running, strategies, strategy_position,
                   start_state, tick_loop, order_loop, hb_loop, oms_sent, candles,
                   ticks_made>>
    /\ UNCHANGED nonMgrVars

\* a running heartbeat loop that will make another pass
HeartbeatAlive == is_running /\ \E r \in Starts : hb_loop[r] \in {"top", "sleep"}

\* a tick loop (2 s timeout) or a heartbeat loop (1 s sleep) that has yet to
\* notice that is_running is off
LoopsToNotice ==
    /\ ~is_running
    /\ \E r \in Starts : tick_loop[r] \in {"top", "get"} \/ hb_loop[r] \in {"top", "sleep"}

\* a minute passes; with a heartbeat loop alive, not before it has made its
\* pass for this minute (it runs every second); not before the on_tick
\* tasks that are ready to run have started; not before the loops with a
\* timeout have seen is_running go off
WallTick ==
    /\ wall < MaxMinute
    /\ HeartbeatAlive => beat_done
    /\ NextNewTask = 0
    /\ ~LoopsToNotice
    /\ wall' = wall + 1
    /\ beat_done' = FALSE
    /\ UNCHANGED <<is_running, strategies, strategy_position, start_state, tick_loop,
                   order_loop, hb_loop, oms_sent, current_candle, candles,
                   on_tick_tasks, ticks_made>>
    /\ UNCHANGED nonMgrVars

\* ---------------------------------------------------------------------
\* StrategyEngine (app/strategy/engine.py) and BaseStrategy.safe_on_tick
\* (app/strategy/base.py). One strategy is registered; every start()
\* creates one task for it.
\* ---------------------------------------------------------------------

\* the tasks asyncio.create_task can hand out
TaskIds == 1..MaxTasks

\* no stop() call is suspended in its gather
NoStop == {0}

\* BaseStrategy._max_errors_before_stop
max_errors_before_stop == 5

\* how a call of the strategy's on_tick ends: it returns, or it raises an
\* Exception
Outcomes == {"ok", "raise"}

\* StrategyEngine.__init__ and BaseStrategy.__init__
StrategyEngineInit ==
    /\ running = FALSE
    /\ tasks = {}
    /\ task_pc = [t \in TaskIds |-> "none"]
    /\ cancel_requested = {}
    /\ stop_waits = NoStop
    /\ is_active = TRUE
    /\ error_count = 0

\* BaseStrategy.safe_on_tick: what it leaves in _error_count and is_active,
\* and whether the exception leaves it ('except Exception' catches it)
SafeOnTick(count, active, outcome) ==
    IF outcome = "ok"
    THEN [error_count |-> 0, is_active |-> active, propagates |-> FALSE]
    ELSE [error_count |-> count + 1,
          is_active |-> IF count + 1 >= max_errors_before_stop
                        THEN FALSE ELSE active,
          propagates |-> FALSE]

\* the test of the while loop in _run_strategy_loop
LoopGoesOn(run, active) == run /\ active

\* the task asyncio.create_task returns next
NewTask == CHOOSE t \in TaskIds :
               /\ task_pc[t] = "none"
               /\ \A u \in TaskIds : task_pc[u] = "none" => t <= u

\* StrategyEngine.start: returns at once when _running is set, else sets it
\* and creates one task per registered strategy. It does not await.
EngineStart ==
    /\ ~running
    /\ \E t \in TaskIds : task_pc[t] = "none"
    /\ running' = TRUE
    /\ task_pc' = [task_pc EXCEPT ![NewTask] = "init"]
    /\ tasks' = tasks \cup {NewTask}
    /\ UNCHANGED <<cancel_requested, stop_waits, is_active, error_count>>
    /\ UNCHANGED nonEngVars

\* StrategyEngine.stop up to its await: clears _running, cancels the tasks
\* of self.tasks and, if there are any, gathers them
EngineStopBegin ==
    /\ stop_waits = NoStop
    /\ running' = FALSE
    /\ cancel_requested' =
           cancel_requested \cup {t \in tasks : task_pc[t] # "done"}
    /\ IF tasks # {}
       THEN stop_waits' = tasks /\ UNCHANGED tasks
       ELSE tasks' = {} /\ UNCHANGED stop_waits
    /\ UNCHANGED <<task_pc, is_active, error_count>>
    /\ UNCHANGED nonEngVars

\* StrategyEngine.stop after the gather: self.tasks = []
EngineStopEnd ==
    /\ stop_waits # NoStop
    /\ \A t \in stop_waits : task_pc[t] = "done"
    /\ tasks' = {}
    /\ stop_waits' = NoStop
    /\ UNCHANGED <<running, task_pc, cancel_requested, is_active, error_count>>
    /\ UNCHANGED nonEngVars

\* a cancelled task is resumed with CancelledError: before its first step,
\* in strategy.initialize or in subscription.get; the loop breaks
TaskCancelled(t) ==
    /\ t \in cancel_requested
    /\ task_pc[t] \in {"init", "get"}
    /\ task_pc' = [task_pc EXCEPT ![t] = "done"]
    /\ cancel_requested' = cancel_requested \ {t}
    /\ UNCHANGED <<running, tasks, stop_waits, is_active, error_count>>
    /\ UNCHANGED nonEngVars

\* _run_strategy_loop up to its first subscription.get: initialize,
\* subscribe, the first test of the loop
TaskSubscribes(t) ==
    /\ task_pc[t] = "init"
    /\ t \notin cancel_requested
    /\ task_pc' = [task_pc EXCEPT
           ![t] = IF LoopGoesOn(running, is_active) THEN "get" ELSE "done"]
    /\ UNCHANGED <<running, tasks, cancel_requested, stop_waits, is_active,
                   error_count>>
    /\ UNCHANGED nonEngVars

\* one pass of the loop: subscription.get returns a tick, safe_on_tick
\* runs the strategy on it, the loop tests again
TaskDelivers(t, outcome) ==
    /\ task_pc[t] = "get"
    /\ t \notin cancel_requested
    /\ LET after == SafeOnTick(error_count, is_active, outcome)
       IN /\ error_count' = after.error_count
          /\ is_active' = after.is_active
          /\ task_pc' = [task_pc EXCEPT
                 ![t] = IF after.propagates THEN "crashed"
                        ELSE IF LoopGoesOn(running, after.is_active)
                             THEN "get" ELSE "done"]
    /\ UNCHANGED <<running, tasks, cancel_requested, stop_waits>>
    /\ UNCHANGED nonEngVars

\* ---------------------------------------------------------------------
\* DataStream (app/data/stream.py): publish, the router consume(), and the
\* subscriptions. Queue sizes are scaled down; a tick is its token and its
\* number in publish order.
\* ---------------------------------------------------------------------

\* maxsize of DataStream.tick_queue (10000 in the code)
stream_maxsize == 2

\* maxsize of a subscription's queue (1000 in the code)
sub_maxsize == 2

SubIds == 1..NumSubs

\* the instrument tokens ticks are published for and subscribed to
StreamTokens == {1, 2}

\* the token lists publish() may be handed: one token per tick of the batch
BatchTokens == UNION {[1..k -> StreamTokens] : k \in 1..MaxBatch}

\* nobody has subscribed
NoSubscription == [token |-> 0, queue |-> << >>, active |-> FALSE]

\* DataStream.__init__
DataStreamStart ==
    /\ stream_queue = << >>
    /\ subs = [s \in SubIds |-> NoSubscription]
    /\ published = 0
    /\ last_got = [s \in SubIds |-> 0]

\* DataStream.subscribe: a fresh queue under a fresh sub_id
StreamSubscribe(s, token) ==
    /\ ~subs[s].active
    /\ subs' = [subs EXCEPT ![s] = [token |-> token, queue |-> << >>, active |-> TRUE]]
    /\ last_got' = [last_got EXCEPT ![s] = 0]
    /\ UNCHANGED <<stream_queue, published>>
    /\ UNCHANGED nonStreamVars

\* Subscription.close / DataStream._unsubscribe: the queue leaves
\* _subscribers; what it holds can still be read
StreamUnsubscribe(s) ==
    /\ subs[s].active
    /\ subs' = [subs EXCEPT ![s].active = FALSE]
    /\ UNCHANGED <<stream_queue, published, last_got>>
    /\ UNCHANGED nonStreamVars

\* DataStream.publish: put_nowait on the main queue; a batch that finds the
\* queue full is dropped
StreamPublish(toks) ==
    /\ published + Len(toks) <= MaxPublished
    /\ LET batch == [i \in 1..Len(toks) |-> [tk |-> toks[i], n |-> published + i]]
       IN stream_queue' = IF Len(stream_queue) < stream_maxsize
                          THEN Append(stream_queue, batch)
                          ELSE stream_queue
    /\ published' = published + Len(toks)
    /\ UNCHANGED <<subs, last_got>>
    /\ UNCHANGED nonStreamVars

\* variant: the router puts a tick on every subscriber's queue
RouteTickToAll(sub, tick) ==
    IF sub.active /\ Len(sub.queue) < sub_maxsize
    THEN [sub EXCEPT !.queue = Append(sub.queue, tick)]
    ELSE sub

\* consume() for one tick and one subscription: put_nowait on the queues
\* registered under the tick's token, QueueFull passed over
RouteTick(sub, tick) ==
    IF sub.active /\ sub.token = tick.tk /\ Len(sub.queue) < sub_maxsize
    THEN [sub EXCEPT !.queue = Append(sub.queue, tick)]
    ELSE sub

\* consume() for the ticks of a batch, in order
RECURSIVE RouteBatch(_, _)
RouteBatch(sub, batch) ==
    IF batch = << >> THEN sub
    ELSE RouteBatch(RouteTick(sub, Head(batch)), Tail(batch))

\* DataStream.consume: one pass of its loop
StreamConsume ==
    /\ stream_queue # << >>
    /\ stream_queue' = Tail(stream_queue)
    /\ subs' = [s \in SubIds |-> RouteBatch(subs[s], Head(stream_queue))]
    /\ UNCHANGED <<published, last_got>>
    /\ UNCHANGED nonStreamVars

\* Subscription.get returns the oldest tick of the queue
SubscriptionGet(s) ==
    /\ subs[s].queue # << >>
    /\ last_got' = [last_got EXCEPT ![s] = Head(subs[s].queue).n]
    /\ subs' = [subs EXCEPT ![s].queue = Tail(subs[s].queue)]
    /\ UNCHANGED <<stream_queue, published>>
    /\ UNCHANGED nonStreamVars

\* ------------------------------------------------------------------------
\* PositionSizer.  Money is counted in hundredths of a rupee; percentages
\* in whole per cent.
\* ------------------------------------------------------------------------
\* the calls made: method, risk_per_trade_pct and leverage of the config,
\* then the arguments
SizerArgs ==
    [method : {"FIXED_RISK", "FIXED_CAPITAL", "MARTINGALE", "ANTI_MARTINGALE"},
     risk_per_trade_pct : {1, 10},
     leverage : {1, 2},
     capital : {10000 * k : k \in 1..MaxCapital},
     entry_price : {0} \cup {100 + 2 * k : k \in 0..MaxPriceSteps},
     sl_price : {0} \cup {100 + 2 * k : k \in 0..MaxPriceSteps},
     lot_size : 0..MaxLot,
     consecutive_losses : 0..MaxStreak, consecutive_wins : 0..MaxStreak]
NoSizerCall ==
    [method |-> "none", risk_per_trade_pct |-> 0, leverage |-> 0, capital |-> 0,
     entry_price |-> 0, sl_price |-> 0, lot_size |-> 0,
     consecutive_losses |-> 0, consecutive_wins |-> 0]

PositionSizerStart ==
    /\ sizer_args = NoSizerCall
    /\ sizer_ret = [qty |-> 0, raises |-> FALSE]

\* abs(entry_price - sl_price)
RiskPerShare(a) ==
    IF a.entry_price >= a.sl_price THEN a.entry_price - a.sl_price
    ELSE a.sl_price - a.entry_price

\* max(1, int(lot_size))
LotOf(a) == IF a.lot_size < 1 THEN 1 ELSE a.lot_size

\* math.floor(raw / lot_size) with raw = num / den, both positive
FloorLots(num, den, lot) == num \div (den * lot)

\* PositionSizer.calculate_qty: the quantity returned, or raises = TRUE when
\* the division by a zero risk per share raises ZeroDivisionError
CalculateQtyResult(a) ==
    LET lot == LotOf(a)
        rps == RiskPerShare(a)
        \* min(2 ** consecutive_losses, 4)
        multiplier == IF 2 ^ a.consecutive_losses < 4 THEN 2 ^ a.consecutive_losses
                      ELSE 4
        \* min(consecutive_wins * 0.005, 0.03), in tenths of a per cent
        bonus_risk == IF a.consecutive_wins * 5 < 30 THEN a.consecutive_wins * 5
                      ELSE 30
        Ret(q) == [qty |-> q, raises |-> FALSE]
        Raise == [qty |-> 0, raises |-> TRUE]
    IN IF a.entry_price <= 0 \/ a.sl_price <= 0 THEN Ret(0)
       ELSE IF a.method = "FIXED_RISK" THEN
           IF rps = 0 THEN Ret(0)
           ELSE LET byRisk == FloorLots(a.capital * a.risk_per_trade_pct, 100 * rps, lot)
                    byCap == FloorLots(a.capital * a.leverage, a.entry_price, lot)
                IN Ret((IF byRisk < byCap THEN byRisk ELSE byCap) * lot)
       ELSE IF a.method = "FIXED_CAPITAL" THEN
           Ret(FloorLots(a.capital, 4 * a.entry_price, lot) * lot)
       ELSE IF a.method = "MARTINGALE" THEN
           IF rps = 0 THEN Raise
           ELSE Ret(FloorLots(a.capital * a.risk_per_trade_pct * multiplier,
                              100 * rps, lot) * lot)
       ELSE IF a.method = "ANTI_MARTINGALE" THEN
           IF rps = 0 THEN Raise
           ELSE Ret(FloorLots(a.capital * (10 * a.risk_per_trade_pct + bonus_risk),
                              1000 * rps, lot) * lot)
       ELSE Ret(0)

CalculateQty(a) ==
    /\ sizer_args' = a
    /\ sizer_ret' = CalculateQtyResult(a)
    /\ UNCHANGED nonSizerVars

\* ------------------------------------------------------------------------
\* MomentumStrategy (services/strategy/lib/momentum.py).  Prices are whole
\* rupees, times whole minutes.
\* ------------------------------------------------------------------------
\* 10 in the source
cooldown_minutes == 2
\* the closes of the candles: 1000, 0.3 % below and 0.9 % above it
Closes == {997, 1000, 1009}
\* what the indicator comparisons of _check_entry_signals come to
Signals == {"BUY", "SELL", "none"}
\* what OrderExecutor.place_order answers: status success, another status,
\* None after an exception of the broker call, or an exception of its own
\* (with RiskMonitor as it is the call raises at the risk check, see
\* RiskMonitorCanTrade)
PlaceOrderAnswers == {"success", "error", "none", "raise"}
NoCandleCall ==
    [time |-> None, branch |-> "none", side |-> "none", qty |-> 0,
     answer |-> "none", position |-> 0]

MomentumStart ==
    /\ mom_position = 0
    /\ entry_price = 0
    /\ last_exit_time = None
    /\ candle_time = 0
    /\ mom_last = NoCandleCall

\* CapitalManager.calculate_quantity(entry, entry * (1 - stop_loss_pct)) with
\* total_capital 100000, risk_per_trade_pct 0.01 and stop_loss_pct 0.003
CalculateQuantity(price) ==
    LET qty == (1000 * 1000) \div (3 * price)
        max_capital_qty == 50000 \div price
        final_qty == Min(qty, max_capital_qty)
    IN IF price <= 0 THEN 0 ELSE IF final_qty < 1 THEN 0 ELSE final_qty

\* _check_exit_signals: "TP" when pnl_pct >= take_profit_pct (0.009), "SL"
\* when pnl_pct <= -stop_loss_pct (0.003), else "none"
ExitReason(pos, entry, close) ==
    LET gain == IF pos > 0 THEN close - entry ELSE entry - close
    IN IF gain * 1000 >= 9 * entry THEN "TP"
       ELSE IF gain * 1000 <= -3 * entry THEN "SL"
       ELSE "none"

\* MomentumStrategy.execute_trade: position and entry_price afterwards
ExecuteTrade(pos, entry, side, price, answer) ==
    LET position_qty == CalculateQuantity(price)
    IN IF position_qty >= 1 /\ answer = "success"
       THEN [position |-> IF side = "BUY" THEN position_qty ELSE -position_qty,
             entry_price |-> price]
       ELSE [position |-> pos, entry_price |-> entry]

\* MomentumStrategy.on_candle_close for a candle that starts gap minutes
\* after the last one: enough tells whether ema_period candles are there
OnCandleClose(gap, enough, signal, close, answer) ==
    LET now == candle_time + gap
        cooling == /\ last_exit_time # None
                   /\ now - last_exit_time < cooldown_minutes
        branch == IF ~enough \/ cooling THEN "none"
                  ELSE IF mom_position = 0 THEN "entry" ELSE "exit"
        reason == IF branch = "exit" THEN ExitReason(mom_position, entry_price, close)
                  ELSE "none"
        side == IF branch = "entry" THEN signal
                ELSE IF reason = "none" THEN "none"
                ELSE IF mom_position > 0 THEN "SELL" ELSE "BUY"
        after == IF side = "none" THEN [position |-> mom_position,
                                        entry_price |-> entry_price]
                 ELSE ExecuteTrade(mom_position, entry_price, side, close, answer)
        ordered == side # "none" /\ CalculateQuantity(close) >= 1
    IN /\ now <= MaxCandleTime
       /\ candle_time' = now
       /\ mom_position' = after.position
       /\ entry_price' = after.entry_price
       /\ last_exit_time' = IF reason # "none" THEN now ELSE last_exit_time
       /\ mom_last' = [time |-> now, branch |-> branch,
                       side |-> IF ordered THEN side ELSE "none",
                       qty |-> IF ordered THEN CalculateQuantity(close) ELSE 0,
                       answer |-> IF ordered THEN answer ELSE "none",
                       position |-> mom_position]
       /\ UNCHANGED nonMomVars

\* ------------------------------------------------------------------------
\* StrategyManager._process_ticks and _heartbeat_loop around
\* _strategies_lock, while is_running holds and exit_time is ahead.  A
\* handler that reaches a candle close awaits on_candle_close and is
\* suspended there.
\* ------------------------------------------------------------------------
Routed == 1..NumRouted

RouterStart ==
    /\ router_pc = "off"
    /\ held_tick = 0
    /\ strategies_lock = "free"
    /\ beat_pc = "off"
    /\ update_suspended = {}
    /\ tick_tasks = [s \in Routed |-> [new |-> 0, suspended |-> 0]]
    /\ ticks_taken = 0

\* StrategyManager.start: the loops are started
RouterLoopsStart ==
    /\ router_pc = "off"
    /\ router_pc' = "get"
    /\ beat_pc' = "top"
    /\ UNCHANGED <<held_tick, strategies_lock, update_suspended, tick_tasks, ticks_taken>>
    /\ UNCHANGED nonRouterVars

\* asyncio.create_task(self.strategies[token].on_tick(tick))
CreateOnTick(tok) == [tick_tasks EXCEPT ![tok].new = @ + 1]

\* _process_ticks: tick_queue.get() returns a tick for strategy tok; with
\* the lock free the on_tick task is created at once, else the loop waits
\* for the lock
RouterTakesTick(tok) ==
    /\ router_pc = "get"
    /\ ticks_taken < MaxTaken
    /\ ticks_taken' = ticks_taken + 1
    /\ IF strategies_lock = "free"
       THEN /\ tick_tasks' = CreateOnTick(tok)
            /\ UNCHANGED <<router_pc, held_tick>>
       ELSE /\ router_pc' = "lock"
            /\ held_tick' = tok
            /\ UNCHANGED tick_tasks
    /\ UNCHANGED <<strategies_lock, beat_pc, update_suspended>>
    /\ UNCHANGED nonRouterVars

\* _process_ticks gets the lock it waited for and routes the tick
RouterGetsLock ==
    /\ router_pc = "lock"
    /\ strategies_lock = "free"
    /\ tick_tasks' = CreateOnTick(held_tick)
    /\ router_pc' = "get"
    /\ held_tick' = 0
    /\ UNCHANGED <<strategies_lock, beat_pc, update_suspended, ticks_taken>>
    /\ UNCHANGED nonRouterVars

\* an on_tick task runs: it returns, or it is suspended in on_candle_close
OnTickRuns(s, suspends) ==
    /\ tick_tasks[s].new > 0
    /\ tick_tasks' = [tick_tasks EXCEPT
          ![s].new = @ - 1,
          ![s].suspended = IF suspends THEN @ + 1 ELSE @]
    /\ UNCHANGED <<router_pc, held_tick, strategies_lock, beat_pc, update_suspended,
                   ticks_taken>>
    /\ UNCHANGED nonRouterVars

\* a suspended on_tick task is resumed and returns
OnTickReturns(s) ==
    /\ tick_tasks[s].suspended > 0
    /\ tick_tasks' = [tick_tasks EXCEPT ![s].suspended = @ - 1]
    /\ UNCHANGED <<router_pc, held_tick, strategies_lock, beat_pc, update_suspended,
                   ticks_taken>>
    /\ UNCHANGED nonRouterVars

\* _heartbeat_loop: one pass before exit_time.  Under the lock it gathers
\* on_time_update of every strategy; those of susp are suspended in
\* on_candle_close and the gather, lock held, waits for them
HeartbeatPass(susp) ==
    /\ beat_pc = "top"
    /\ strategies_lock = "free"
    /\ update_suspended' = susp
    /\ IF susp = {}
       THEN beat_pc' = "sleep" /\ UNCHANGED strategies_lock
       ELSE beat_pc' = "gather" /\ strategies_lock' = "heartbeat"
    /\ UNCHANGED <<router_pc, held_tick, tick_tasks, ticks_taken>>
    /\ UNCHANGED nonRouterVars

\* a suspended on_time_update returns; with the last one the gather is over
\* and the lock is released
OnTimeUpdateReturns(s) ==
    /\ s \in update_suspended
    /\ update_suspended' = update_suspended \ {s}
    /\ IF update_suspended = {s}
       THEN beat_pc' = "sleep" /\ strategies_lock' = "free"
       ELSE UNCHANGED <<beat_pc, strategies_lock>>
    /\ UNCHANGED <<router_pc, held_tick, tick_tasks, ticks_taken>>
    /\ UNCHANGED nonRouterVars

\* asyncio.sleep(1) of the heartbeat is over
HeartbeatSleepEnds ==
    /\ beat_pc = "sleep"
    /\ beat_pc' = "top"
    /\ UNCHANGED <<router_pc, held_tick, strategies_lock, update_suspended, tick_tasks,
                   ticks_taken>>
    /\ UNCHANGED nonRouterVars

\* ------------------------------------------------------------------------
\* VirtualBroker (services/oms/virtual_broker.py): orders, fills and the
\* quantity of each Position.  Prices decide which limit orders fill; the
\* average entry price, the balance and the realized PnL are computed from
\* the fills and do not feed back into the quantities.  Orders are placed
\* at least a millisecond apart, so that their ids differ.
\* ------------------------------------------------------------------------
ledger_max_size == 1000

\* the order_params of place_order: market orders carry price 0; quantity 0
\* is refused
PaperOrderParams ==
    [token : Tokens, side : {"B", "S"}, qty : 0..MaxPaperQty,
     type : {"MKT"}, price : {0}]
    \cup [token : Tokens, side : {"B", "S"}, qty : 0..MaxPaperQty,
          type : {"L"}, price : LtpValues]

\* the one-minute candles handed to process_candle
PaperCandles ==
    {c \in [open : LtpValues, high : LtpValues, low : LtpValues] :
        c.low <= c.open /\ c.open <= c.high}

VirtualBrokerStart ==
    /\ paper_orders = << >>
    /\ paper_positions = [t \in Tokens |-> 0]
    /\ paper_ledger = << >>

\* VirtualBroker.place_order
PaperPlaceOrder(p) ==
    /\ Len(paper_orders) < MaxPaperOrders
    /\ paper_orders' =
          IF p.qty > 0
          THEN Append(paper_orders,
                      [token |-> p.token, side |-> p.side, qty |-> p.qty,
                       type |-> p.type, price |-> p.price, status |-> "OPEN"])
          ELSE paper_orders
    /\ UNCHANGED <<paper_positions, paper_ledger>>
    /\ UNCHANGED nonPaperVars

\* VirtualBroker.cancel_order
PaperCancelOrder(i) ==
    /\ i \in 1..Len(paper_orders)
    /\ paper_orders[i].status = "OPEN"
    /\ paper_orders' = [paper_orders EXCEPT ![i].status = "CANCELLED"]
    /\ UNCHANGED <<paper_positions, paper_ledger>>
    /\ UNCHANGED nonPaperVars

\* the fill test of process_candle: does the order fill on candle c
Fills(order, c) ==
    \/ order.type = "MKT"
    \/ order.type = "L" /\ order.side = "B" /\ c.low <= order.price
    \/ order.type = "L" /\ order.side = "S" /\ c.high >= order.price

\* Position.qty after _execute_fill: close_partial when the signed product
\* is <= 0 (a flat position included), add otherwise
PositionAfterFill(pos_qty, side, qty) ==
    LET qty_signed == IF side = "B" THEN qty ELSE -qty
    IN IF pos_qty * qty_signed <= 0
       THEN pos_qty - qty * (IF pos_qty > 0 THEN 1 ELSE -1)
       ELSE pos_qty + qty_signed

\* the loop of process_candle over the orders from the i-th on
RECURSIVE ProcessOrders(_, _, _, _)
ProcessOrders(i, token, c, st) ==
    IF i > Len(st.orders) THEN st
    ELSE LET order == st.orders[i]
         IN IF order.status = "OPEN" /\ order.token = token /\ Fills(order, c)
            THEN ProcessOrders(i + 1, token, c,
                    [orders |-> [st.orders EXCEPT ![i].status = "TRADED"],
                     positions |-> [st.positions EXCEPT
                         ![token] = PositionAfterFill(@, order.side, order.qty)],
                     ledger |-> LET l == Append(st.ledger,
                                            [token |-> token,
                                             side |-> IF order.side = "B" THEN "BUY"
                                                      ELSE "SELL",
                                             qty |-> order.qty])
                                IN IF Len(l) > ledger_max_size THEN Tail(l) ELSE l])
            ELSE ProcessOrders(i + 1, token, c, st)

\* VirtualBroker.process_candle
ProcessCandle(token, c) ==
    /\ \E i \in 1..Len(paper_orders) :
          paper_orders[i].status = "OPEN" /\ paper_orders[i].token = token
    /\ LET st == ProcessOrders(1, token, c,
                    [orders |-> paper_orders, positions |-> paper_positions,
                     ledger |-> paper_ledger])
       IN /\ paper_orders' = st.orders
          /\ paper_positions' = st.positions
          /\ paper_ledger' = st.ledger
    /\ UNCHANGED nonPaperVars

\* ------------------------------------------------------------------------
\* MarketScheduler.run_loop (core/scheduler.py) on a trading day.  The
\* market closes (15:30) after exit_time (15:15): is_market_open_now holds
\* for every minute the model's clock shows.
\* ------------------------------------------------------------------------
IsMarketOpenNow == wall <= exit_time

SchedulerStart ==
    /\ sched_pc = "off"
    /\ sched_call = 0

\* run_loop is started
SchedulerRuns ==
    /\ sched_pc = "off"
    /\ sched_pc' = "check"
    /\ UNCHANGED sched_call
    /\ UNCHANGED nonSchedVars

\* one pass of run_loop up to its await: with the market open and the engine
\* not running it calls strategy_engine.start() (r is the call, which begins
\* with reconcile); with the market closed it clears is_running
SchedulerCheck(r) ==
    /\ sched_pc = "check"
    /\ IF IsMarketOpenNow /\ ~is_running
       THEN /\ start_state[r] = "idle"
            /\ start_state' = [start_state EXCEPT ![r] = "reconcile"]
            /\ sched_pc' = "start"
            /\ sched_call' = r
            /\ UNCHANGED is_running
       ELSE /\ is_running' = IF IsMarketOpenNow THEN is_running ELSE FALSE
            /\ sched_pc' = "sleep"
            /\ UNCHANGED <<start_state, sched_call>>
    /\ UNCHANGED <<wall, beat_done, strategies, strategy_position, tick_loop,
                   order_loop, hb_loop, oms_sent, current_candle, candles,
                   on_tick_tasks, ticks_made>>
    /\ UNCHANGED <<riskVars, reqVars, pipeVars, cbVars, busVars, limVars, feedVars,
                   engVars, streamVars, sizerVars, momVars, routerVars, paperVars>>

\* the start() call run_loop awaits has returned
SchedulerStartOver ==
    /\ sched_pc = "start"
    /\ start_state[sched_call] = "returned"
    /\ sched_pc' = "sleep"
    /\ sched_call' = 0
    /\ UNCHANGED nonSchedVars

\* asyncio.sleep(60) is over
SchedulerSleepEnds ==
    /\ sched_pc = "sleep"
    /\ sched_pc' = "check"
    /\ UNCHANGED sched_call
    /\ UNCHANGED nonSchedVars

\* RiskSentinel.__init__ and the RiskConfig it is given
SentinelStart ==
    /\ cfgClass \in {"risk.models", "schemas.common"}
    /\ max_daily_loss = 1
    /\ kill_switch_active = FALSE
    /\ current_pnl = 0
    /\ open_trades = 0
    /\ trades_today = 0
    /\ peak_equity = 0
    /\ lock = "free"
    /\ snapshot = NoSnapshot

\* no check_pre_trade call is in progress
RequestsStart ==
    /\ pc = [r \in Requests |-> "idle"]
    /\ req_value = [r \in Requests |-> 0]
    /\ result = [r \in Requests |-> "none"]

\* RiskManager.__init__ and BaseStrategy.__init__
PipelineStart ==
    /\ is_initialized = FALSE
    /\ position = 0
    /\ avg_price = 0
    /\ last_trade_time = "None"
    /\ sent = << >>
    /\ last = NoCall

\* every object as its constructor leaves it
ObjectsStart ==
    /\ SentinelStart /\ RequestsStart /\ PipelineStart
    /\ CircuitStart
    /\ BusStart
    /\ LimiterStart
    /\ ManagerStart
    /\ StrategyEngineInit
    /\ DataStreamStart
    /\ PositionSizerStart
    /\ MomentumStart
    /\ RouterStart
    /\ VirtualBrokerStart
    /\ SchedulerStart

\* the program as constructed with the default settings (PAPER_TRADING on)
ProgramStart ==
    /\ ObjectsStart
    /\ FeedStartState(TRUE)

InitRisk == ProgramStart

NextRisk ==
    \/ \E r \in Requests, v \in TradeValues : CallCheckPreTrade(r, v)
    \/ \E r \in Requests : ResumeCheckPreTrade(r)
    \/ \E r \in Requests : ReturnCheckPreTrade(r)
    \/ \E snap \in Snapshots : SyncStateBegin(snap)
    \/ SyncStateEnd
    \/ \E p \in PnlValues : UpdatePostTradeClose(p)
    \/ RollbackSlot
    \/ ResetDaily

SpecRisk == InitRisk /\ [][NextRisk]_vars

\* ------------------------------------------------------------------------
\* Properties of the risk sentinel
\* ------------------------------------------------------------------------
\* request r's check_pre_trade body runs in this step
Completes(r) == pc[r] # "done" /\ pc'[r] = "done"

\* C1: once the kill switch is on, every step that is not a reset_daily leaves
\* it on, and a check_pre_trade that runs meanwhile returns false and leaves
\* open_trades and trades_today as they were.
KillSwitchLatches ==
    [][ (kill_switch_active /\ ~ResetDaily) =>
          /\ kill_switch_active'
          /\ \A r \in Requests :
                Completes(r) => /\ result'[r] = "false"
                                /\ open_trades' = open_trades
                                /\ trades_today' = trades_today ]_vars

\* C1 witness: the switch is still on although the PnL has recovered above
\* the loss limit and every slot is free, and a check of a trade within the
\* capital limit was just refused.
KillSwitchLatchesWitness ==
    /\ kill_switch_active
    /\ current_pnl > -max_daily_loss
    /\ open_trades = 0
    /\ \E r \in Requests :
          /\ pc[r] = "done" /\ result[r] = "false"
          /\ req_value[r] <= max_capital_per_trade

NetPnl(snap) == snap.realizedPNL - snap.estCharges

\* C9: when sync_state completes against a snapshot whose net PnL is at or
\* below -max_daily_loss, the kill switch is on.
SyncStateSetsKillSwitch ==
    [][ (lock = "sync_state" /\ lock' = "free" /\ snapshot.outcome = "ok"
         /\ NetPnl(snapshot) <= -max_daily_loss) => kill_switch_active' ]_vars

\* ------------------------------------------------------------------------
\* RiskManager, ExecutionEngine and BaseStrategy
\* ------------------------------------------------------------------------
\* master_data freeze_qty of the instrument (default 1800), scaled down
FreezeQty == 2
Prices == {0, 1}                 \* 0 is a market order
QtyArgs == {None} \cup (0..MaxQty)
BrokerOutcomes == {"ok", "not_ok", "raise"}
MaxLegs == (MaxQty + FreezeQty - 1) \div FreezeQty
\* the broker's outcomes leg by leg; legs after the first failure are not
\* sent, so their entries are fixed to "ok"
OutcomeSeqs ==
    {o \in [1..MaxLegs -> BrokerOutcomes] :
        \A i, j \in 1..MaxLegs : (i < j /\ o[i] # "ok") => o[j] = "ok"}
\* what risk_manager.calculate_size may return
Sizes == {0, 2}


\* the two counters check_pre_trade writes, as a record
Counters == [ot |-> open_trades, tt |-> trades_today]

\* RiskManager.can_trade
CanTrade(rc, qty, price) ==
    IF ~is_initialized
    THEN [res |-> "false", rc |-> rc]
    ELSE LET res == CheckPreTradeResult(cfgClass, kill_switch_active, max_daily_loss,
                                        current_pnl, rc.ot, qty * price)
         IN [res |-> res,
             rc |-> [ot |-> ReserveOpen(res, rc.ot), tt |-> ReserveToday(res, rc.tt)]]

\* RiskManager.on_execution_failure awaits self.sentinel.on_execution_failure();
\* RiskSentinel defines rollback_slot and no on_execution_failure, so the
\* call raises AttributeError and no slot is rolled back
OnExecutionFailure == "raise"

\* variant: _send_single_order without its post-order update task
SendSingleOrderNoUpdate(qty, outcome) ==
    IF outcome = "ok"
    THEN [status |-> "COMPLETE", filled_qty |-> qty, failure_calls |-> 0,
          ledger |-> "PENDING_BROKER"]
    ELSE [status |-> "raise", filled_qty |-> 0,
          failure_calls |-> IF outcome = "not_ok" THEN 2 ELSE 1,
          ledger |-> "PENDING_BROKER"]

\* ExecutionEngine._send_single_order for one leg and the broker's outcome:
\* the response status, the number of risk_manager.on_execution_failure
\* calls made, and the status the leg's ledger row is left with (the row is
\* written PENDING_BROKER before the broker call and updated by the
\* _update_ledger task created after it; the database is taken to work).
\* Not-Ok response: on_execution_failure raises inside the try block, the
\* except clause calls it again and that raise leaves the method before the
\* update task is created.  Broker exception: the except clause's call raises.
SendSingleOrder(qty, outcome) ==
    IF outcome = "ok"
    THEN [status |-> "COMPLETE", filled_qty |-> qty, failure_calls |-> 0,
          ledger |-> "COMPLETE"]
    ELSE IF OnExecutionFailure = "raise"
    THEN [status |-> "raise", filled_qty |-> 0,
          failure_calls |-> IF outcome = "not_ok" THEN 2 ELSE 1,
          ledger |-> "PENDING_BROKER"]
    ELSE LET st == IF outcome = "not_ok" THEN "REJECTED" ELSE "FAILED"
         IN [status |-> st, filled_qty |-> 0, failure_calls |-> 1, ledger |-> st]

\* what is recorded of a leg handed to _send_single_order
Leg(qty, outcome) ==
    LET resp == SendSingleOrder(qty, outcome)
    IN [qty |-> qty, outcome |-> outcome, failure_calls |-> resp.failure_calls,
        ledger |-> resp.ledger]

\* the leg loop of ExecutionEngine._execute_iceberg, from leg i on
RECURSIVE IcebergLoop(_, _, _, _, _, _, _)
IcebergLoop(i, num_legs, remaining, filled_so_far, freeze_limit, outcomes, legs) ==
    IF i > num_legs
    THEN [raised |-> FALSE, filled_so_far |-> filled_so_far, legs |-> legs]
    ELSE LET leg_qty == Min(remaining, freeze_limit)
             resp == SendSingleOrder(leg_qty, outcomes[i])
             legs2 == Append(legs, Leg(leg_qty, outcomes[i]))
         IN IF resp.status = "raise"
            THEN [raised |-> TRUE, filled_so_far |-> filled_so_far, legs |-> legs2]
            ELSE IF resp.status = "COMPLETE"
            THEN IcebergLoop(i + 1, num_legs, remaining - leg_qty,
                             filled_so_far + leg_qty, freeze_limit, outcomes, legs2)
            ELSE [raised |-> FALSE, filled_so_far |-> filled_so_far, legs |-> legs2]

\* the consolidated report of _execute_iceberg
FinalStatus(filled_so_far, total_qty) ==
    IF filled_so_far = 0 THEN "FAILED"
    ELSE IF filled_so_far = total_qty THEN "COMPLETE"
    ELSE "PARTIAL_FILL"

\* variant: the report counts every leg sent as a full freeze_limit fill
ExecuteIcebergCountsFullLegs(total_qty, freeze_limit, outcomes) ==
    LET num_legs == CeilDiv(total_qty, freeze_limit)
        r == IcebergLoop(1, num_legs, total_qty, 0, freeze_limit, outcomes, << >>)
    IN IF r.raised
       THEN [ret |-> "raise", filled_qty |-> 0, legs |-> r.legs]
       ELSE [ret |-> FinalStatus(r.filled_so_far, total_qty),
             filled_qty |-> Len(r.legs) * freeze_limit, legs |-> r.legs]

\* ExecutionEngine._execute_iceberg
ExecuteIceberg(total_qty, freeze_limit, outcomes) ==
    LET num_legs == CeilDiv(total_qty, freeze_limit)
        r == IcebergLoop(1, num_legs, total_qty, 0, freeze_limit, outcomes, << >>)
    IN IF r.raised
       THEN [ret |-> "raise", filled_qty |-> 0, legs |-> r.legs]
       ELSE [ret |-> FinalStatus(r.filled_so_far, total_qty),
             filled_qty |-> r.filled_so_far, legs |-> r.legs]

\* ExecutionEngine.execute_order, starting from the counters rc
ExecuteOrder(rc, quantity, price, outcomes) ==
    LET ct == CanTrade(rc, quantity, price)
    IN IF ct.res = "raise"
       THEN [ret |-> "raise", filled_qty |-> 0, legs |-> << >>, rc |-> ct.rc]
       ELSE IF ct.res = "false"
       THEN [ret |-> "None", filled_qty |-> 0, legs |-> << >>, rc |-> ct.rc]
       ELSE IF quantity > FreezeQty
       THEN LET r == ExecuteIceberg(quantity, FreezeQty, outcomes)
            IN [ret |-> r.ret, filled_qty |-> r.filled_qty, legs |-> r.legs, rc |-> ct.rc]
       ELSE LET r == SendSingleOrder(quantity, outcomes[1])
            IN [ret |-> r.status, filled_qty |-> r.filled_qty,
                legs |-> << Leg(quantity, outcomes[1]) >>, rc |-> ct.rc]

\* BaseStrategy._execute: the debounce, the order and the position update
Execute(side, qty, price, outcomes, rc) ==
    IF last_trade_time = "recent"
    THEN [ret |-> "None", filled_qty |-> 0, legs |-> << >>, rc |-> rc,
          position |-> position, last_trade_time |-> last_trade_time]
    ELSE LET r == ExecuteOrder(rc, qty, price, outcomes)
             fills == r.ret \in {"COMPLETE", "PARTIAL_FILL"}
         IN [ret |-> r.ret, filled_qty |-> r.filled_qty, legs |-> r.legs, rc |-> r.rc,
             position |-> IF ~fills THEN position
                          ELSE IF side = "BUY" THEN position + r.filled_qty
                          ELSE position - r.filled_qty,
             last_trade_time |-> IF fills THEN "recent" ELSE last_trade_time]

\* a strategy call that returns before it reaches _execute
Returns(ret, rc) ==
    [ret |-> ret, filled_qty |-> 0, legs |-> << >>, rc |-> rc,
     position |-> position, last_trade_time |-> last_trade_time]

\* the entry branch of buy/sell: the strategy's own risk check, then _execute
EnterThenExecute(side, calculated_qty, price, outcomes) ==
    LET new_exposure == IF side = "BUY" THEN Abs(position + calculated_qty)
                        ELSE Abs(position - calculated_qty)
    IN IF new_exposure > Abs(position)
       THEN LET ct == CanTrade(Counters, calculated_qty, price)
            IN IF ct.res = "raise" THEN Returns("raise", ct.rc)
               ELSE IF ct.res = "false" THEN Returns("None", ct.rc)
               ELSE Execute(side, calculated_qty, price, outcomes, ct.rc)
       ELSE Execute(side, calculated_qty, price, outcomes, Counters)

\* BaseStrategy.buy; size is what risk_manager.calculate_size returns
BuyOutcome(price, qty, size, outcomes) ==
    LET is_entry == ~(position < 0)
        calculated_qty == IF position < 0
                          THEN (IF qty # None THEN qty ELSE Abs(position))
                          ELSE (IF qty # None THEN qty ELSE size)
    IN IF calculated_qty <= 0 THEN Returns("None", Counters)
       ELSE IF is_entry THEN EnterThenExecute("BUY", calculated_qty, price, outcomes)
       ELSE Execute("BUY", calculated_qty, price, outcomes, Counters)

\* BaseStrategy.sell
SellOutcome(price, qty, size, outcomes) ==
    LET is_entry == ~(position > 0)
        calculated_qty == IF position > 0
                          THEN (IF qty # None THEN qty ELSE Abs(position))
                          ELSE (IF qty # None THEN qty ELSE size)
    IN IF calculated_qty <= 0 THEN Returns("None", Counters)
       ELSE IF is_entry THEN EnterThenExecute("SELL", calculated_qty, price, outcomes)
       ELSE Execute("SELL", calculated_qty, price, outcomes, Counters)

\* the state after a strategy call with outcome r
Apply(opname, qty, price, r) ==
    /\ r.position \in -MaxPos..MaxPos
    /\ open_trades' = r.rc.ot
    /\ trades_today' = r.rc.tt
    /\ position' = r.position
    /\ last_trade_time' = r.last_trade_time
    /\ sent' = r.legs
    /\ last' = [op |-> opname, qty |-> qty, price |-> price, ret |-> r.ret,
                filled_qty |-> r.filled_qty]
    /\ UNCHANGED <<cfgClass, max_daily_loss, kill_switch_active, current_pnl,
                   peak_equity, lock, snapshot, is_initialized, avg_price>>
    /\ UNCHANGED nonPipeVars

Buy(price, qty, size, outcomes) ==
    /\ trades_today < MaxTradesToday
    /\ Apply("buy", qty, price, BuyOutcome(price, qty, size, outcomes))

Sell(price, qty, size, outcomes) ==
    /\ trades_today < MaxTradesToday
    /\ Apply("sell", qty, price, SellOutcome(price, qty, size, outcomes))

\* BaseStrategy.close_position
ClosePosition(outcomes) ==
    /\ trades_today < MaxTradesToday
    /\ Apply("close_position", Abs(position), 0,
             IF position = 0 THEN Returns("None", Counters)
             ELSE IF position > 0 THEN Execute("SELL", position, 0, outcomes, Counters)
             ELSE Execute("BUY", Abs(position), 0, outcomes, Counters))

\* ExecutionEngine.execute_order called on its own
ExecuteOrderCall(side, quantity, price, outcomes) ==
    /\ trades_today < MaxTradesToday
    /\ LET r == ExecuteOrder(Counters, quantity, price, outcomes)
       IN Apply("execute_order", quantity, price,
                [ret |-> r.ret, filled_qty |-> r.filled_qty, legs |-> r.legs,
                 rc |-> r.rc, position |-> position,
                 last_trade_time |-> last_trade_time])

\* a second or more passes on the wall clock
Tick ==
    /\ last_trade_time = "recent"
    /\ last_trade_time' = "old"
    /\ last' = [NoCall EXCEPT !.op = "tick"]
    /\ sent' = << >>
    /\ UNCHANGED <<riskVars, is_initialized, position, avg_price>>
    /\ UNCHANGED nonPipeVars

\* BaseStrategy.sync_position against the broker's answer resp:
\* kind "skip" (not logged in, or get_positions raised), "empty" (no data),
\* "other" (rows, none for this token) or "row" (a row for this token)
PositionAnswers ==
    [kind : {"skip", "empty", "other"}, netQty : {0}, avgPrice : {0}]
    \cup [kind : {"row"}, netQty : -MaxPos..MaxPos, avgPrice : {1}]

SyncPosition(resp) ==
    /\ position' = IF resp.kind \in {"skip", "empty"} THEN position
                   ELSE IF resp.kind = "row" /\ resp.netQty # 0 THEN resp.netQty
                   ELSE 0
    /\ avg_price' = IF resp.kind = "row" /\ resp.netQty # 0 THEN resp.avgPrice
                    ELSE avg_price
    /\ last' = [NoCall EXCEPT !.op = "sync_position"]
    /\ sent' = << >>
    /\ UNCHANGED <<riskVars, is_initialized, last_trade_time>>
    /\ UNCHANGED nonPipeVars

\* RiskManager.initialize: db is the system_config lookup ("row", "norow" or
\* "raise"), snap the broker's answer to sync_state.  Assigning
\* max_concurrent_trades to a risk.models config object, which has no such
\* field, raises before sync_state is reached.
DbLossValues == {1}

Initialize(db, loss, snap) ==
    /\ max_daily_loss' = IF db = "row" THEN loss ELSE max_daily_loss
    /\ LET reached == db = "norow" \/ (db = "row" /\ cfgClass = "schemas.common")
       IN /\ open_trades' = IF reached THEN SyncOpenTrades(snap, open_trades)
                            ELSE open_trades
          /\ is_initialized' = IF reached THEN TRUE ELSE is_initialized
    /\ last' = [NoCall EXCEPT !.op = "initialize"]
    /\ sent' = << >>
    /\ UNCHANGED <<cfgClass, kill_switch_active, current_pnl, trades_today,
                   peak_equity, lock, snapshot, position, avg_price, last_trade_time>>
    /\ UNCHANGED nonPipeVars

InitPipe == ProgramStart

NextPipe ==
    \/ \E db \in {"row", "norow", "raise"}, loss \in DbLossValues, snap \in Snapshots :
          Initialize(db, loss, snap)
    \/ \E p \in Prices, q \in QtyArgs, o \in OutcomeSeqs :
          \E z \in (IF q = None THEN Sizes ELSE {0}) : Buy(p, q, z, o)
    \/ \E p \in Prices, q \in QtyArgs, o \in OutcomeSeqs :
          \E z \in (IF q = None THEN Sizes ELSE {0}) : Sell(p, q, z, o)
    \/ \E o \in OutcomeSeqs : ClosePosition(o)
    \/ \E p \in Prices, q \in 1..MaxQty, o \in OutcomeSeqs :
          ExecuteOrderCall("BUY", q, p, o)
    \/ \E resp \in PositionAnswers : SyncPosition(resp)
    \/ Tick

SpecPipe == InitPipe /\ [][NextPipe]_vars

\* ------------------------------------------------------------------------
\* Properties of the execution pipeline
\* ------------------------------------------------------------------------
\* the quantity the strategy call of this step works with
CalledQty == IF last'.qty = None THEN Abs(position) ELSE last'.qty

\* this step is a strategy call that reduces |position|
IsExitStep ==
    \/ last'.op = "sell" /\ position > 0 /\ CalledQty \in 1..position
    \/ last'.op = "buy" /\ position < 0 /\ CalledQty \in 1..(-position)
    \/ last'.op = "close_position" /\ position # 0

\* nothing but the risk gate's slot test stands between the call and the broker
GateOpenButForSlots ==
    /\ is_initialized
    /\ ~kill_switch_active
    /\ current_pnl > -max_daily_loss
    /\ last_trade_time # "recent"

\* C2: with the kill switch off and open_trades at max_open_trades, an order
\* that reduces |position| still reaches the broker and reserves no slot.
ExitSkipsSlotCheck ==
    [][ (IsExitStep /\ GateOpenButForSlots /\ open_trades = max_open_trades) =>
          /\ Len(sent') >= 1
          /\ open_trades' = open_trades
          /\ trades_today' = trades_today ]_vars

\* C5: when execute_order passed the pre-trade check and the broker rejects
\* the order or the broker call raises, open_trades is afterwards what it was
\* before the pre-trade check.
RejectedOrderReleasesSlot ==
    [][ (last'.op = "execute_order" /\ Len(sent') = 1 /\ sent'[1].outcome # "ok") =>
          open_trades' = open_trades ]_vars

\* C6: a strategy buy or sell from flat that is accepted and produces one
\* broker order adds exactly 1 to open_trades and exactly 1 to trades_today.
EntryReservesOneSlot ==
    [][ (last'.op \in {"buy", "sell"} /\ position = 0 /\ Len(sent') = 1
         /\ last'.ret = "COMPLETE") =>
          /\ open_trades' = open_trades + 1
          /\ trades_today' = trades_today + 1 ]_vars

\* C7: an exit that fills and brings the position to zero takes one off
\* open_trades, floored at 0.
FullExitFreesSlot ==
    [][ (IsExitStep /\ last'.ret = "COMPLETE" /\ position' = 0) =>
          open_trades' = Max(0, open_trades - 1) ]_vars

\* C8: whenever the strategy holds a position its avg_price is positive, and
\* a fill that opens a position from flat at a limit price sets avg_price to
\* that price.
PositionHasAvgPrice ==
    [][ /\ (position' # 0 => avg_price' > 0)
        /\ (last'.op \in {"buy", "sell"} /\ position = 0 /\ position' # 0
            /\ last'.price > 0) => avg_price' = last'.price ]_vars

\* the legs of the step's order that the broker accepted
OkLegs == {i \in 1..Len(sent') : sent'[i].outcome = "ok"}

\* C10: in an iceberg chain no leg follows a failing leg, and the aggregated
\* status is COMPLETE when every leg succeeded, FAILED when none did and
\* PARTIAL otherwise.
IcebergStatusAggregates ==
    [][ (last'.op = "execute_order" /\ last'.qty > FreezeQty /\ Len(sent') >= 1) =>
          /\ \A i \in 1..(Len(sent') - 1) : sent'[i].outcome = "ok"
          /\ last'.ret = IF Cardinality(OkLegs) = CeilDiv(last'.qty, FreezeQty)
                         THEN "COMPLETE"
                         ELSE IF OkLegs = {} THEN "FAILED"
                         ELSE "PARTIAL_FILL" ]_vars

\* the statuses an OrderResponse of execute_order can carry
ResponseStatuses == {"COMPLETE", "PARTIAL_FILL", "FAILED", "REJECTED"}

\* the quantities of the legs the broker accepted, added up
RECURSIVE SumOkLegs(_)
SumOkLegs(legs) ==
    IF legs = << >> THEN 0
    ELSE (IF Head(legs).outcome = "ok" THEN Head(legs).qty ELSE 0) + SumOkLegs(Tail(legs))

RECURSIVE SumFailureCalls(_)
SumFailureCalls(legs) ==
    IF legs = << >> THEN 0
    ELSE Head(legs).failure_calls + SumFailureCalls(Tail(legs))

\* C12: one iceberg order calls the execution-failure rollback exactly once
\* if a leg fails and not at all if every leg succeeds, and leaves one ledger
\* row per leg sent: COMPLETE for a leg that succeeded, REJECTED for the leg
\* the broker rejected.
IcebergRollsBackOnce ==
    (last.op = "execute_order" /\ last.qty > FreezeQty /\ Len(sent) >= 1) =>
        /\ SumFailureCalls(sent) =
              (IF \E i \in 1..Len(sent) : sent[i].outcome # "ok" THEN 1 ELSE 0)
        /\ \A i \in 1..Len(sent) :
              /\ sent[i].outcome = "ok" => sent[i].ledger = "COMPLETE"
              /\ sent[i].outcome = "not_ok" => sent[i].ledger = "REJECTED"
              /\ sent[i].outcome = "raise" => sent[i].ledger \in {"REJECTED", "FAILED"}

\* the status the broker's outcome gives a leg's response
StatusOf(outcome) ==
    IF outcome = "ok" THEN "COMPLETE"
    ELSE IF outcome = "not_ok" THEN "REJECTED" ELSE "FAILED"

\* C29: every leg sent to the broker has a ledger row, written PENDING_BROKER
\* before the broker call, that carries the outcome once the broker has
\* answered.
LedgerRowFollowsOutcome ==
    \A i \in 1..Len(sent) : sent[i].ledger = StatusOf(sent[i].outcome)

\* the ledger statuses that are final
TerminalStatuses == {"COMPLETE", "REJECTED", "CANCELLED", "PARTIAL_FILL", "FAILED"}

\* the legs of the last order whose ledger row is not final
NonTerminalLegs == {i \in 1..Len(sent) : sent[i].ledger \notin TerminalStatuses}

\* the last call was an iceberg chain and it returned its aggregated response
IcebergReturned ==
    /\ last.op \in {"buy", "sell", "close_position", "execute_order"}
    /\ Len(sent) >= 2
    /\ last.ret \in {"COMPLETE", "PARTIAL_FILL", "FAILED"}

InitCB == ProgramStart

NextCB ==
    \/ \E c \in Callers : CallBegin(c)
    \/ \E c \in Callers : CallSucceeds(c)
    \/ \E c \in Callers : CallFails(c)
    \/ ClockTick

SpecCB == InitCB /\ [][NextCB]_vars

\* the calls that were let through in HALF_OPEN and are still inside func
Probes == {c \in Callers : cpc[c] = "running" /\ admitted[c] = "HALF_OPEN"}

\* C3: while a probe let through in HALF_OPEN is in flight, no other call is
\* let through: at most one call admitted in HALF_OPEN is running at a time.
SingleProbeInHalfOpen == Cardinality(Probes) <= 1

ProbeOutcomeDecides ==
    [][ \A c \in Callers :
          /\ (CallBegin(c) /\ state = "OPEN" /\ since_last_failure >= recovery_timeout) =>
                (cpc'[c] = "running" /\ state' = "HALF_OPEN")
          /\ (CallSucceeds(c) /\ admitted[c] = "HALF_OPEN") =>
                (state' = "CLOSED" /\ failure_count' = 0)
          /\ (CallFails(c) /\ admitted[c] = "HALF_OPEN") =>
                (state' = "OPEN" /\ since_last_failure' = 0) ]_vars

\* ------------------------------------------------------------------------
\* Specification and properties of the event bus
\* ------------------------------------------------------------------------
InitBus == ProgramStart

NextBus ==
    \/ PutTick
    \/ OnMessageRouterTick
    \/ OnMessageRouterOrder
    \/ RunCallback
    \/ PutOrder
    \/ \E o \in 1..MaxOrders : PutOrderResume(o)
    \/ \E o \in 1..MaxOrders : PutOrderTimeout(o)
    \/ GetTick
    \/ GetOrder
    \/ FeedStart

SpecBus == InitBus /\ [][NextBus]_vars

\* a tick reaches the tick queue in this step, from put_tick or from the
\* callback the feed scheduled
TickArrives ==
    \/ PutTick
    \/ RunCallback /\ Head(callbacks).kind = "tick"

\* the tick that reaches the queue in such a step
ArrivingTick == IF PutTick THEN next_tick + 1 ELSE Head(callbacks).item

\* C13: the tick queue never holds more than its capacity, and a tick that
\* arrives at a full queue, from whichever producer, takes the place of the
\* oldest queued tick and adds exactly 1 to ticks_dropped.
TickOverflowDropsOldest ==
    [][ /\ Len(tick_queue') <= TICK_QUEUE_SIZE
        /\ (TickArrives /\ Len(tick_queue) = TICK_QUEUE_SIZE) =>
              /\ tick_queue' = Append(Tail(tick_queue), ArrivingTick)
              /\ ticks_dropped' = ticks_dropped + 1 ]_vars

\* C14: an order update the feed delivers is enqueued, at once or after
\* waiting for space; it is never discarded because the queue is full.
OrderUpdateNeverDropped ==
    [][ (RunCallback /\ Head(callbacks).kind = "order") =>
          \/ order_queue' = Append(order_queue, Head(callbacks).item)
          \/ Head(callbacks).item \in put_waiting' ]_vars

\* ------------------------------------------------------------------------
\* Specification and properties of the rate limiter
\* ------------------------------------------------------------------------
InitLim == ProgramStart

NextLim ==
    \/ \E c \in Acquirers : PlaceOrderBegin(c)
    \/ \E c \in Acquirers : AcquireWakes(c)
    \/ \E c \in Acquirers : PlaceOrderEnd(c)
    \/ LimiterTick

SpecLim == InitLim /\ [][NextLim]_vars

\* the acquire calls that returned within the last w units of time
RECURSIVE ReturnedWithin(_)
ReturnedWithin(w) == IF w < 0 THEN 0 ELSE returned[w] + ReturnedWithin(w - 1)

LoginCallers == {1}
OrderCallers == {1}

InitOrder == ProgramStart

NextOrder ==
    \/ \E c \in LoginCallers : CallBegin(c)
    \/ \E c \in LoginCallers : CallSucceeds(c)
    \/ \E c \in LoginCallers : CallFails(c)
    \/ ClockTick
    \/ \E c \in OrderCallers : PlaceOrderBegin(c)
    \/ \E c \in OrderCallers : AcquireWakes(c)
    \/ \E c \in OrderCallers : PlaceOrderEnd(c)
    \/ LimiterTick

SpecOrder == InitOrder /\ [][NextOrder]_vars

\* C17: while the broker circuit breaker is OPEN and its recovery timeout
\* has not passed, no place_order call reaches the broker.
OpenBreakerBlocksOrders ==
    [][ (state = "OPEN" /\ since_last_failure < recovery_timeout) =>
          \A c \in Acquirers : ~(lpc[c] # "calling" /\ lpc'[c] = "calling") ]_vars

\* ------------------------------------------------------------------------
\* Specifications and properties of the market feed
\* ------------------------------------------------------------------------
\* paper trading or live
InitFeed == ObjectsStart /\ \E mode \in BOOLEAN : FeedStartState(mode)

\* the steps of connect()
ConnectSteps ==
    \/ ConnectCalled
    \/ \E ok \in BOOLEAN : ConnectTop(ok)
    \/ LoginSleepEnds
    \/ Watchdog
    \/ IdleSleepEnds
    \/ WatchSleepEnds
    \/ BackoffEnds

NextFeed ==
    \/ ConnectSteps
    \/ \E toks \in SUBSET Tokens, ok \in BOOLEAN : Subscribe(toks, ok)
    \/ OnMessage
    \/ FeedClockTick
    \/ KotakLogin

SpecFeed == InitFeed /\ [][NextFeed]_vars

\* the event loop keeps running the connect() task
SpecFeedLive == InitFeed /\ [][NextFeed]_vars /\ WF_vars(ConnectSteps)

\* connect()'s own subscription of the subscribed tokens succeeds in this step
ResubscriptionSucceeds ==
    /\ fpc = "start" /\ fpc' = "watch"
    /\ subscribed_tokens # {}
    /\ last_sent'.ok

\* C19: every reconnect sleep doubles the delay for the next one up to 60 s,
\* starting from 2 s, and connect()'s first successful subscription after a
\* reconnect puts the delay back to 2 s.
ReconnectDelayBacksOffAndResets ==
    [][ /\ (fpc = "backoff" /\ fpc' # "backoff") =>
              reconnect_delay' = Min(reconnect_delay * 2, MaxReconnectDelay)
        /\ ResubscriptionSucceeds => reconnect_delay' = FirstReconnectDelay ]_vars

\* C20: with a token subscribed and silence beyond silence_threshold the
\* watchdog raises (connect() reaches its reconnect sleep) unless a packet
\* arrives first; after the reconnect sleep connect() subscribes again, with
\* every token ever passed to subscribe; the watchdog raises only with a
\* token subscribed and the silence beyond the threshold.
WatchdogFiresAndResubscribes ==
    /\ []((subscribed_tokens # {} /\ fpc \in {"watch", "watch_sleep"}
           /\ silence > silence_threshold)
            => <>(fpc = "backoff" \/ silence <= silence_threshold))
    /\ [](fpc = "backoff"
            => <>(fpc = "watch" /\ last_sent.tokens = subscribed_tokens))
    /\ [][ (fpc = "watch" /\ fpc' = "backoff") =>
              (subscribed_tokens # {} /\ silence > silence_threshold) ]_vars
    /\ [][ (fpc = "start" /\ fpc' = "watch" /\ subscribed_tokens # {}) =>
              last_sent'.tokens = subscribed_tokens ]_vars
    /\ [][ subscribed_tokens \subseteq subscribed_tokens' ]_vars

\* C20 witness: after a zombie error and the reconnect sleep, connect() has
\* just subscribed again with every token passed to subscribe so far.
WatchdogFiresAndResubscribesWitness ==
    /\ fpc = "watch"
    /\ reconnect_delay > FirstReconnectDelay
    /\ subscribed_tokens = Tokens
    /\ last_sent.tokens = Tokens
    /\ silence = 0

\* ------------------------------------------------------------------------
\* Specifications and properties of the strategy manager
\* ------------------------------------------------------------------------
\* paper trading or live
InitMgr == ObjectsStart /\ \E mode \in BOOLEAN : FeedStartState(mode)

\* the steps of the tasks the event loop runs on its own
ManagerSteps ==
    \/ \E r \in Starts : StartBegin(r)
    \/ \E r \in Starts, has \in SUBSET Strats, qty \in [Strats -> RestoredQty] :
          StartRun(r, has, qty)
    \/ \E r \in Starts : TickLoopTop(r)
    \/ \E r \in Starts : TickLoopTimeout(r)
    \/ \E r \in Starts : OrderLoopTop(r)
    \/ \E r \in Starts, alert_ok \in BOOLEAN : HeartbeatTop(r, alert_ok)
    \/ \E r \in Starts : HeartbeatWakes(r)
    \/ \E r \in Starts : StartReturns(r)

\* the engine's life cycle: start requests, the three loops, stop, square-off
NextMgr ==
    \/ ManagerSteps
    \/ \E r \in Starts, syms \in SUBSET Strats, configured \in BOOLEAN :
          StartBot(r, syms, configured)
    \/ \E r \in Starts : OrderLoopGet(r)
    \/ StopBot
    \/ \E alert_ok \in BOOLEAN : Shutdown(alert_ok)
    \/ WallTick

SpecMgr == InitMgr /\ [][NextMgr]_vars

\* the event loop keeps running its tasks
SpecMgrLive == InitMgr /\ [][NextMgr]_vars /\ WF_vars(ManagerSteps)

\* the bars: one start request at a time, ticks and heartbeats; the broker
\* reports no open position
BarStarts == {1}

NextBar ==
    \/ \E r \in BarStarts, syms \in SUBSET Strats, configured \in BOOLEAN :
          StartBot(r, syms, configured)
    \/ \E r \in BarStarts : StartBegin(r)
    \/ \E r \in BarStarts : StartRun(r, {}, [s \in Strats |-> 0])
    \/ \E r \in BarStarts : TickLoopTop(r)
    \/ \E r \in BarStarts, tok \in Strats, ltp \in LtpValues : TickLoopGet(r, tok, ltp)
    \/ \E r \in BarStarts : TickLoopTimeout(r)
    \/ \E r \in BarStarts : OrderLoopTop(r)
    \/ \E r \in BarStarts : OrderLoopGet(r)
    \/ \E r \in BarStarts, alert_ok \in BOOLEAN : HeartbeatTop(r, alert_ok)
    \/ \E r \in BarStarts : HeartbeatWakes(r)
    \/ \E r \in BarStarts : StartReturns(r)
    \/ StopBot
    \/ \E suspends \in BOOLEAN : RunOnTick(suspends)
    \/ \E i \in 1..MaxBarTicks : ResumeOnTick(i)
    \/ WallTick

SpecBar == InitMgr /\ [][NextBar]_vars

\* the bars of token s: those handed to on_candle_close and the open one
BarsOf(s) ==
    {candles[s][i] : i \in 1..Len(candles[s])}
        \cup (IF current_candle[s] = NoCandle THEN {} ELSE {current_candle[s]})

\* the bar b aggregates its ticks as a one-minute bar should
BarIsSound(b) ==
    /\ \A k \in 1..Len(b.ticks) :
          /\ b.ticks[k].ts = b.start_time
          /\ b.low <= b.ticks[k].ltp /\ b.ticks[k].ltp <= b.high
    /\ b.open = b.ticks[1].ltp
    /\ b.close = b.ticks[Len(b.ticks)].ltp

\* C21: every bar holds only ticks of its own start minute (date and time),
\* with low <= every price <= high, open the first and close the last price.
BarHoldsOneMinute == \A s \in Strats : \A b \in BarsOf(s) : BarIsSound(b)

\* C22: a heartbeat pass that finds the wall clock past an open bar's minute
\* closes that bar, hands it to on_candle_close once and starts no new bar.
HeartbeatClosesStaleBar ==
    [][ \A r \in Starts, s \in Strats :
          (/\ hb_loop[r] = "top" /\ hb_loop'[r] # "top"
           /\ is_running
           /\ s \in strategies
           /\ current_candle[s] # NoCandle
           /\ current_candle[s].start_time < wall)
          => /\ current_candle'[s] = NoCandle
             /\ candles'[s] = Append(candles[s], current_candle[s]) ]_vars

\* C27: while an on_tick call is suspended in a bar close, no later tick of
\* the same token has been applied to the strategy's bar.
TicksAppliedInOrder ==
    \A i \in 1..Len(on_tick_tasks) :
        on_tick_tasks[i].pc = "closing" =>
            current_candle[on_tick_tasks[i].tok] = NoCandle

\* a square-off runs in this step: the heartbeat pass at exit_time, or the
\* shutdown of the application
SquareOffRuns ==
    \E alert_ok \in BOOLEAN :
        \/ Shutdown(alert_ok)
        \/ \E r \in Starts :
              is_running /\ wall >= exit_time /\ HeartbeatTop(r, alert_ok)

\* the order that closes the position of token s
ClosingOrder(s) ==
    [token |-> s,
     side |-> IF strategy_position[s] > 0 THEN "SELL" ELSE "BUY",
     qty |-> Abs(strategy_position[s]),
     price |-> 0]

\* C24: when a square-off runs, an opposite-side market order for the full
\* position has been sent for every strategy with a non-zero position, and
\* is_running is false afterwards.
SquareOffClosesPositions ==
    [][ SquareOffRuns
        => /\ ~is_running'
           /\ \A s \in strategies :
                 strategy_position[s] # 0 => ClosingOrder(s) \in oms_sent' ]_vars

\* C25: once is_running is false the three loops of a start call end and
\* the call returns (unless the engine is started again first), also when no
\* tick and no order update arrives.
LoopsEndAfterStop ==
    \A r \in Starts :
        (start_state[r] = "running" /\ ~is_running)
            ~> (start_state[r] = "returned" \/ is_running)

\* the start calls whose tick, order or heartbeat loop is still going
LoopSets ==
    {r \in Starts :
        \/ tick_loop[r] \in {"top", "get"}
        \/ order_loop[r] \in {"top", "get"}
        \/ hb_loop[r] \in {"top", "sleep"}}

\* C26: whatever the interleaving of start requests, at most one set of
\* tick, order and heartbeat loops is active.
OneSetOfLoops == Cardinality(LoopSets) <= 1

\* ---------------------------------------------------------------------
\* The risk sentinel over trading days: the strategy trades through the
\* execution pipeline and the scheduler resets the sentinel at market open.
\* The strategy's position is the only one at the broker, and the broker
\* reports no position when the risk manager initializes.
\* ---------------------------------------------------------------------

\* what get_positions answers at start-up
FlatSnapshots == {s \in Snapshots : s.open = 0}

NextDay ==
    \/ \E db \in {"row", "norow", "raise"}, loss \in DbLossValues,
          snap \in FlatSnapshots : Initialize(db, loss, snap)
    \/ \E p \in Prices, o \in OutcomeSeqs : Buy(p, 1, 0, o)
    \/ \E p \in Prices, o \in OutcomeSeqs : Sell(p, 1, 0, o)
    \/ \E o \in OutcomeSeqs : ClosePosition(o)
    \/ Tick
    \/ ResetDaily

SpecDay == ProgramStart /\ [][NextDay]_vars

\* the positions open at the broker
PositionsOpen == IF position # 0 THEN 1 ELSE 0

\* C28: reset_daily zeroes the day's PnL, trades_today and peak equity and
\* clears the kill switch; open_trades is not zeroed but equals, after the
\* reset, the number of positions still open.
ResetKeepsOpenPositions ==
    [][ ResetDaily
        => /\ current_pnl' = 0 /\ trades_today' = 0 /\ peak_equity' = 0
           /\ ~kill_switch_active'
           /\ open_trades' = PositionsOpen ]_vars

\* ---------------------------------------------------------------------
\* StrategyEngine: start and stop calls and the strategy tasks
\* ---------------------------------------------------------------------

NextEng ==
    \/ EngineStart
    \/ EngineStopBegin
    \/ EngineStopEnd
    \/ \E t \in TaskIds : TaskCancelled(t)
    \/ \E t \in TaskIds : TaskSubscribes(t)
    \/ \E t \in TaskIds, outcome \in Outcomes : TaskDelivers(t, outcome)

SpecEng == ProgramStart /\ [][NextEng]_vars

\* C23: a tick is delivered only to an active strategy; an exception of
\* on_tick stays inside safe_on_tick; a failure adds one to the error count,
\* a success resets it to 0, and the fifth failure in a row marks the
\* strategy inactive.
SafeOnTickContainsErrors ==
    [][ \A t \in TaskIds, outcome \in Outcomes :
          TaskDelivers(t, outcome)
          => /\ is_active
             /\ task_pc'[t] # "crashed"
             /\ outcome = "ok" => error_count' = 0
             /\ outcome = "raise" => error_count' = error_count + 1
             /\ is_active' = (error_count' < max_errors_before_stop) ]_vars

\* ---------------------------------------------------------------------
\* DataStream: publishers, the router and the subscribers
\* ---------------------------------------------------------------------

NextStream ==
    \/ \E s \in SubIds, token \in StreamTokens : StreamSubscribe(s, token)
    \/ \E s \in SubIds : StreamUnsubscribe(s)
    \/ \E toks \in BatchTokens : StreamPublish(toks)
    \/ StreamConsume
    \/ \E s \in SubIds : SubscriptionGet(s)

SpecStream == ProgramStart /\ [][NextStream]_vars

\* the ticks of a batch that carry the token
TicksFor(batch, token) == SelectSeq(batch, LAMBDA t : t.tk = token)

\* the first k elements of a sequence
Take(seq, k) == SubSeq(seq, 1, Min(k, Len(seq)))

\* what subscriber s holds and has read is of its token and in publish order
SubscriptionSound(s) ==
    LET q == subs[s].queue
    IN /\ \A i \in 1..Len(q) : q[i].tk = subs[s].token
       /\ \A i, j \in 1..Len(q) : i < j => q[i].n < q[j].n
       /\ q # << >> => last_got[s] < q[1].n

\* the router hands the batch it takes to every current subscriber: the
\* ticks of the subscriber's token, in order, as far as its queue has space
BatchDelivered ==
    \A s \in SubIds :
        subs'[s].queue =
            IF subs[s].active
            THEN Take(subs[s].queue \o TicksFor(Head(stream_queue), subs[s].token),
                      sub_maxsize)
            ELSE subs[s].queue

\* publish() puts its batch on the main queue
BatchAccepted == Len(stream_queue') = Len(stream_queue) + 1

\* publish() is handed a batch with a tick for a current subscriber whose
\* queue is empty
PublishedForSubscriber ==
    \E toks \in BatchTokens :
        /\ StreamPublish(toks)
        /\ \E s \in SubIds, i \in 1..Len(toks) :
              subs[s].active /\ subs[s].queue = << >> /\ toks[i] = subs[s].token

BrokerNetQty(resp) == IF resp.kind = "row" THEN resp.netQty ELSE 0

\* C32: after sync_position against a logged-in broker that answered, the
\* strategy's position is the broker's net quantity for its token, 0 when
\* the answer holds no open position for the token.
SyncTakesBrokerQuantity ==
    [][ \A resp \in PositionAnswers :
          (SyncPosition(resp) /\ resp.kind # "skip")
          => position' = BrokerNetQty(resp) ]_vars

NextSizer == \E a \in SizerArgs : CalculateQty(a)

SpecSizer == ProgramStart /\ [][NextSizer]_vars

\* the risk per share the sizer is to work with: entry * 0.005 when the
\* distance to the stop is below 0.05, as a fraction num / den
EffectiveRiskNum(a) == IF RiskPerShare(a) < 5 THEN a.entry_price * 5 ELSE RiskPerShare(a) * 1000
\* floor(min(qtyByCap, qtyByRisk) / lotSize) * lotSize with that risk per share
QtyWithFallback(a) ==
    LET lot == LotOf(a)
        byRisk == FloorLots(a.capital * a.risk_per_trade_pct * 10, EffectiveRiskNum(a), lot)
        byCap == FloorLots(a.capital * a.leverage, a.entry_price, lot)
    IN (IF byRisk < byCap THEN byRisk ELSE byCap) * lot
SizedCall ==
    /\ sizer_args.method = "FIXED_RISK"
    /\ sizer_args.entry_price > 0
    /\ sizer_args.sl_price > 0

\* C33: for positive prices the sizer returns
\* floor(min(qtyByCap, qtyByRisk) / lotSize) * lotSize, where a risk per
\* share below 0.05 (entry = sl included) is replaced by entry * 0.005, so
\* that the call does not fail and the quantity is positive in that case.
SizerFloorsToLots ==
    SizedCall =>
        /\ ~sizer_ret.raises
        /\ sizer_ret.qty = QtyWithFallback(sizer_args)
        /\ RiskPerShare(sizer_args) < 5 => sizer_ret.qty > 0

NextMom ==
    \E gap \in 1..MaxGap, enough \in BOOLEAN, signal \in Signals,
       close \in Closes, answer \in PlaceOrderAnswers :
        OnCandleClose(gap, enough, signal, close, answer)

SpecMom == ProgramStart /\ [][NextMom]_vars

\* the last call sent an exit order that the broker accepted and that
\* covers the whole position held before it
FullExitFilled ==
    /\ mom_last.branch = "exit"
    /\ mom_last.answer = "success"
    /\ mom_last.qty >= Abs(mom_last.position)

NoOrderWhileCooling ==
    (mom_last.side # "none" /\ last_exit_time # None)
    => \/ mom_last.time = last_exit_time
       \/ mom_last.time - last_exit_time >= cooldown_minutes

\* the last call was an exit whose order the broker accepted; the next
\* candle with an entry signal that closes after the cooldown gets its
\* entry order placed
EntryAfterCooldown ==
    \A gap \in 1..MaxGap, signal \in {"BUY", "SELL"}, close \in Closes,
       answer \in PlaceOrderAnswers :
        ( /\ OnCandleClose(gap, TRUE, signal, close, answer)
          /\ mom_last.branch = "exit" /\ mom_last.answer = "success"
          /\ last_exit_time = mom_last.time
          /\ candle_time + gap - last_exit_time >= cooldown_minutes )
        => (mom_last'.branch = "entry" /\ mom_last'.side = signal)

RemainingAt(i) == last.qty - (i - 1) * FreezeQty

\* the legs of the last order, added up
RECURSIVE SumLegs(_)
SumLegs(legs) == IF legs = << >> THEN 0 ELSE Head(legs).qty + SumLegs(Tail(legs))

\* the last call was execute_order and it got past the risk check
OrderRouted == last.op = "execute_order" /\ Len(sent) >= 1

NextRouter ==
    \/ RouterLoopsStart
    \/ \E tok \in Routed : RouterTakesTick(tok)
    \/ RouterGetsLock
    \/ \E s \in Routed, suspends \in BOOLEAN : OnTickRuns(s, suspends)
    \/ \E s \in Routed : OnTickReturns(s)
    \/ \E susp \in SUBSET Routed : HeartbeatPass(susp)
    \/ \E s \in Routed : OnTimeUpdateReturns(s)
    \/ HeartbeatSleepEnds

SpecRouter == ProgramStart /\ [][NextRouter]_vars

\* a handler of a strategy other than tok is suspended
OtherHandlerSuspended(tok) ==
    \E s \in Routed \ {tok} : tick_tasks[s].suspended > 0 \/ s \in update_suspended

\* the tick loop has taken a tick and cannot route it
RouterBlocked == router_pc = "lock" /\ strategies_lock # "free"

\* C37: while a tick or time-update handler of one strategy is suspended,
\* the tick loop routes the tick it took for another strategy without
\* waiting.
RouterNeverBlocked ==
    \A tok \in Routed :
        (held_tick = tok /\ OtherHandlerSuspended(tok)) => ~RouterBlocked

\* the same for suspended on_tick handlers alone
OnTickNeverBlocksRouter ==
    (update_suspended = {}) => ~RouterBlocked

\* C38: a call that succeeds while the breaker is CLOSED sets the failure
\* count back to 0, so that the breaker opens only on failure_threshold
\* failures in a row.
SuccessResetsCount ==
    [][ \A c \in Callers :
          (CallSucceeds(c) /\ state = "CLOSED")
          => (failure_count' = 0 /\ state' = "CLOSED") ]_vars

NextPaper ==
    \/ \E p \in PaperOrderParams : PaperPlaceOrder(p)
    \/ \E i \in 1..MaxPaperOrders : PaperCancelOrder(i)
    \/ \E token \in Tokens, c \in PaperCandles : ProcessCandle(token, c)

SpecPaper == ProgramStart /\ [][NextPaper]_vars

\* the filled quantity of one side for a token, from the ledger
RECURSIVE FilledQty(_, _, _)
FilledQty(ledger, token, side) ==
    IF ledger = << >> THEN 0
    ELSE (IF Head(ledger).token = token /\ Head(ledger).side = side
          THEN Head(ledger).qty ELSE 0) + FilledQty(Tail(ledger), token, side)

\* C39: the quantity held for each token is the sum of its filled BUY
\* quantities less the sum of its filled SELL quantities; a SELL filled from
\* flat leaves a negative quantity.
PositionIsNetOfFills ==
    \A t \in Tokens :
        paper_positions[t] =
            FilledQty(paper_ledger, t, "BUY") - FilledQty(paper_ledger, t, "SELL")

\* the scheduler and the engine it starts; nobody calls /stop, so the
\* engine stops only when the heartbeat has squared off
NextSched ==
    \/ SchedulerRuns
    \/ \E r \in Starts : SchedulerCheck(r)
    \/ SchedulerStartOver
    \/ SchedulerSleepEnds
    \/ \E r \in Starts : StartRun(r, {}, [s \in Strats |-> 0])
    \/ \E r \in Starts : TickLoopTop(r)
    \/ \E r \in Starts : TickLoopTimeout(r)
    \/ \E r \in Starts : OrderLoopTop(r)
    \/ \E r \in Starts : OrderLoopGet(r)
    \/ \E r \in Starts, alert_ok \in BOOLEAN : HeartbeatTop(r, alert_ok)
    \/ \E r \in Starts : HeartbeatWakes(r)
    \/ \E r \in Starts : StartReturns(r)
    \/ WallTick

SpecSched == ProgramStart /\ [][NextSched]_vars

\* a start() call of today is over: its heartbeat has squared off and
\* stopped the engine
SquaredOffToday == \E r \in Starts : start_state[r] = "returned"

====
